---- MODULE Spec2Model ----
(***************************************************************************)
(* A model of git-pkgs/forges: the Client registry and routing, the forge  *)
(* detector, and the adapters' listing fallback.  Strings whose characters *)
(* matter to the code (URLs, version strings) are sequences of one-        *)
(* character strings; other strings are atoms.                             *)
(***************************************************************************)
EXTENDS Integers, Sequences, FiniteSets, TLC

VARIABLES
    world,      \* detector: what the probed server answers on each endpoint
    det,        \* detector: the last detection call and its outcome
    lsrv,       \* listing: the provider's organization and user listing endpoints
    lopts,      \* listing: the ListOptions of the call
    lout,       \* listing: the last ListRepositories call and its outcome
    client,     \* the Client: its adapter map, token map and HTTP client
    copts,      \* the options the Client was constructed with
    cout,       \* the last operation on the Client and its outcome
    detectRuns, \* per domain, how often the detector ran on it
    regCalls,   \* per domain, how often RegisterDomain was called for it
    tsrv,       \* adapter calls: the provider and the caller's context
    tout,       \* adapter calls: the last FetchRepository/FetchTags call and its outcome
    pin,        \* URL parser: the reference given to ParseRepoURL
    pout,       \* URL parser: what ParseRepoURL returned for it
    fin,        \* filter: the batch and the options given to FilterRepos
    fres,       \* filter: what FilterRepos returned for them
    conc        \* concurrent callers: where each goroutine is in its call on the Client

detVars == <<world, det>>

listVars == <<lsrv, lopts, lout>>

clientVars == <<client, copts, cout, detectRuns, regCalls>>

fetchVars == <<tsrv, tout>>

parseVars == <<pin, pout>>

filterVars == <<fin, fres>>

concVars == <<conc>>

vars == <<world, det, lsrv, lopts, lout, client, copts, cout, detectRuns, regCalls,
          tsrv, tout, pin, pout, fin, fres, conc>>

Idle == [op |-> "idle"]

(***************************************************************************)
(* Character strings.                                                      *)
(***************************************************************************)

\* strings.ToLower, on the letters the model's strings use
ToLowerChar(ch) ==
    CASE ch = "F" -> "f"
      [] ch = "O" -> "o"
      [] ch = "R" -> "r"
      [] ch = "G" -> "g"
      [] ch = "E" -> "e"
      [] ch = "J" -> "j"
      [] OTHER -> ch

ToLower(s) == [i \in 1..Len(s) |-> ToLowerChar(s[i])]

\* strings.Contains
Contains(s, sub) ==
    \E i \in 0..(Len(s) - Len(sub)) : SubSeq(s, i + 1, i + Len(sub)) = sub

StrForgejo == <<"f", "o", "r", "g", "e", "j", "o">>

(***************************************************************************)
(* Forge detector (DetectForgeType and its probes).                        *)
(***************************************************************************)

GitHub == "github"
GitLab == "gitlab"
Gitea == "gitea"
Forgejo == "forgejo"
Bitbucket == "bitbucket"
Unknown == "unknown"

ErrNil == "nil"
ErrTransport == "transport error"
ErrDecode == "json decode error"
ErrStatus == "status error"
ErrCouldNotDetect == "could not detect forge type"

HeaderNames == {"X-Forgejo-Version", "X-Gitea-Version", "X-Gitlab-Meta", "X-GitHub-Request-Id"}

\* http.Header.Get: the value, "" when the header is absent
HeaderGet(h, name) == IF name \in DOMAIN h THEN h[name] ELSE ""

\* mutant: X-Gitea-Version is looked at before X-Forgejo-Version
detectFromHeaders_GiteaFirst(w) ==
    IF w.root.err THEN [ft |-> Unknown, err |-> ErrTransport]
    ELSE IF HeaderGet(w.root.header, "X-Gitea-Version") # "" THEN [ft |-> Gitea, err |-> ErrNil]
    ELSE IF HeaderGet(w.root.header, "X-Forgejo-Version") # "" THEN [ft |-> Forgejo, err |-> ErrNil]
    ELSE IF HeaderGet(w.root.header, "X-Gitlab-Meta") # "" THEN [ft |-> GitLab, err |-> ErrNil]
    ELSE IF HeaderGet(w.root.header, "X-GitHub-Request-Id") # "" THEN [ft |-> GitHub, err |-> ErrNil]
    ELSE [ft |-> Unknown, err |-> ErrNil]

detectFromHeaders(w) ==
    IF w.root.err THEN [ft |-> Unknown, err |-> ErrTransport]
    ELSE IF HeaderGet(w.root.header, "X-Forgejo-Version") # "" THEN [ft |-> Forgejo, err |-> ErrNil]
    ELSE IF HeaderGet(w.root.header, "X-Gitea-Version") # "" THEN [ft |-> Gitea, err |-> ErrNil]
    ELSE IF HeaderGet(w.root.header, "X-Gitlab-Meta") # "" THEN [ft |-> GitLab, err |-> ErrNil]
    ELSE IF HeaderGet(w.root.header, "X-GitHub-Request-Id") # "" THEN [ft |-> GitHub, err |-> ErrNil]
    ELSE [ft |-> Unknown, err |-> ErrNil]

\* json.Decoder.Decode into struct{Version string}: a missing field leaves ""
DecodedVersion(body) == IF body.hasVersion THEN body.version ELSE <<>>

probeGiteaAPI(w) ==
    IF w.v1.err THEN [ft |-> Unknown, err |-> ErrTransport]
    ELSE IF w.v1.status # 200 THEN [ft |-> Unknown, err |-> ErrStatus]
    ELSE IF ~w.v1.body.decodes THEN [ft |-> Unknown, err |-> ErrDecode]
    ELSE IF Contains(ToLower(DecodedVersion(w.v1.body)), StrForgejo)
         THEN [ft |-> Forgejo, err |-> ErrNil]
    ELSE [ft |-> Gitea, err |-> ErrNil]

\* probeURL on one endpoint's answer
probeURL(ans) ==
    IF ans.err THEN [ok |-> FALSE, err |-> ErrTransport]
    ELSE [ok |-> (ans.status = 200), err |-> ErrNil]

\* mutant: /api/v4/version is probed before /api/v1/version
detectFromAPI_GitLabFirst(w) ==
    IF probeURL(w.v4).err = ErrNil /\ probeURL(w.v4).ok
    THEN [ft |-> GitLab, err |-> ErrNil,
          probes |-> <<"/api/v4/version">>]
    ELSE IF probeGiteaAPI(w).err = ErrNil
    THEN [ft |-> probeGiteaAPI(w).ft, err |-> ErrNil,
          probes |-> <<"/api/v4/version", "/api/v1/version">>]
    ELSE IF probeURL(w.v3).err = ErrNil /\ probeURL(w.v3).ok
    THEN [ft |-> GitHub, err |-> ErrNil,
          probes |-> <<"/api/v4/version", "/api/v1/version", "/api/v3/meta">>]
    ELSE [ft |-> Unknown, err |-> ErrCouldNotDetect,
          probes |-> <<"/api/v4/version", "/api/v1/version", "/api/v3/meta">>]

detectFromAPI(w) ==
    IF probeGiteaAPI(w).err = ErrNil
    THEN [ft |-> probeGiteaAPI(w).ft, err |-> ErrNil,
          probes |-> <<"/api/v1/version">>]
    ELSE IF probeURL(w.v4).err = ErrNil /\ probeURL(w.v4).ok
    THEN [ft |-> GitLab, err |-> ErrNil,
          probes |-> <<"/api/v1/version", "/api/v4/version">>]
    ELSE IF probeURL(w.v3).err = ErrNil /\ probeURL(w.v3).ok
    THEN [ft |-> GitHub, err |-> ErrNil,
          probes |-> <<"/api/v1/version", "/api/v4/version", "/api/v3/meta">>]
    ELSE [ft |-> Unknown, err |-> ErrCouldNotDetect,
          probes |-> <<"/api/v1/version", "/api/v4/version", "/api/v3/meta">>]

\* mutant: a failed header probe ends the detection with its error
DetectForgeType_HeaderErrFatal(w) ==
    IF detectFromHeaders(w).err # ErrNil
    THEN [ft |-> Unknown, err |-> detectFromHeaders(w).err, probes |-> <<"/">>]
    ELSE IF detectFromHeaders(w).ft # Unknown
    THEN [ft |-> detectFromHeaders(w).ft, err |-> ErrNil, probes |-> <<"/">>]
    ELSE [ft |-> detectFromAPI(w).ft, err |-> detectFromAPI(w).err,
          probes |-> <<"/">> \o detectFromAPI(w).probes]

DetectForgeType(w) ==
    IF detectFromHeaders(w).err = ErrNil /\ detectFromHeaders(w).ft # Unknown
    THEN [ft |-> detectFromHeaders(w).ft, err |-> ErrNil, probes |-> <<"/">>]
    ELSE [ft |-> detectFromAPI(w).ft, err |-> detectFromAPI(w).err,
          probes |-> <<"/">> \o detectFromAPI(w).probes]

\* ---- the servers a domain may turn out to be ----

HeaderValues == {"", "v"}

Headers == UNION {[S -> HeaderValues] : S \in SUBSET HeaderNames}

RootAnswers ==
    {[err |-> TRUE, header |-> <<>>]} \cup {[err |-> FALSE, header |-> h] : h \in Headers}

VersionStrings ==
    { <<>>,
      <<"1", ".", "2">>,
      <<"7", "+", "f", "o", "r", "g", "e", "j", "o">>,
      <<"F", "O", "R", "G", "E", "J", "O">>,
      <<"9", "-", "F", "o", "r", "g", "e", "J", "o", "-", "1">>,
      <<"f", "o", "r", "g", "e">> }

NoBody == [decodes |-> FALSE, hasVersion |-> FALSE, version |-> <<>>]

Bodies ==
    {NoBody, [decodes |-> TRUE, hasVersion |-> FALSE, version |-> <<>>]}
    \cup {[decodes |-> TRUE, hasVersion |-> TRUE, version |-> v] : v \in VersionStrings}

ProbeStatuses == {200, 404, 500}

V1Answers ==
    {[err |-> TRUE, status |-> 0, body |-> NoBody]}
    \cup {[err |-> FALSE, status |-> 200, body |-> b] : b \in Bodies}
    \cup {[err |-> FALSE, status |-> s, body |-> NoBody] : s \in ProbeStatuses \ {200}}

StatusAnswers ==
    {[err |-> TRUE, status |-> 0]} \cup {[err |-> FALSE, status |-> s] : s \in ProbeStatuses}

Worlds == [root : RootAnswers, v1 : V1Answers, v4 : StatusAnswers, v3 : StatusAnswers]

DetectInit ==
    /\ conc = Idle
    /\ world \in Worlds
    /\ det = Idle
    /\ lsrv = Idle /\ lopts = Idle /\ lout = Idle
    /\ client = Idle /\ copts = Idle /\ cout = Idle /\ detectRuns = Idle /\ regCalls = Idle
    /\ tsrv = Idle /\ tout = Idle /\ pin = Idle /\ pout = Idle /\ fin = Idle /\ fres = Idle

DetectForgeTypeStep ==
    /\ det = Idle
    /\ det' = [op |-> "DetectForgeType"] @@ DetectForgeType(world)
    /\ UNCHANGED <<world, listVars, clientVars, fetchVars, parseVars, filterVars, concVars>>

detectFromHeadersStep ==
    /\ det = Idle
    /\ det' = [op |-> "detectFromHeaders", probes |-> <<"/">>] @@ detectFromHeaders(world)
    /\ UNCHANGED <<world, listVars, clientVars, fetchVars, parseVars, filterVars, concVars>>

detectFromAPIStep ==
    /\ det = Idle
    /\ det' = [op |-> "detectFromAPI"] @@ detectFromAPI(world)
    /\ UNCHANGED <<world, listVars, clientVars, fetchVars, parseVars, filterVars, concVars>>

DetectNext == DetectForgeTypeStep \/ detectFromHeadersStep \/ detectFromAPIStep

SpecDetect == DetectInit /\ [][DetectNext]_vars

(***************************************************************************)
(* Repositories, ListOptions and the repository filter.                    *)
(***************************************************************************)

ErrNotFound == "repository not found"
ErrOwnerNotFound == "owner not found"
ErrAPI == "api error"

ArchivedInclude == 0
ArchivedExclude == 1
ArchivedOnly == 2

ForkInclude == 0
ForkExclude == 1
ForkOnly == 2

NoRef == [present |-> FALSE, full_name |-> ""]

Ref(n) == [present |-> TRUE, full_name |-> n]

NoLicense == [present |-> FALSE, key |-> ""]

License(key) == [present |-> TRUE, key |-> key]

\* the license key with which a provider says that it asserts no license
NoAssertion == "NOASSERTION"

\* one repository as a provider's payload carries it. full_name is the
\* provider's full_name (GitLab: path_with_namespace); owner is owner.login
\* (GitLab: namespace.path, Bitbucket: owner.username) and has_owner says
\* that the owner object is there; name is the name (Bitbucket: slug); fork is
\* the provider's own fork flag; parent is the parent (GitLab:
\* forked_from_project); license is the license object with its key (GitHub:
\* spdx_id)
ProviderPayload(full_name, has_owner, owner, name, archived, fork, parent, license) ==
    [full_name |-> full_name, has_owner |-> has_owner, owner |-> owner, name |-> name,
     archived |-> archived, fork |-> fork, parent |-> parent, license |-> license]

\* the payload of the repository name of owner, without a license
Payload(owner, name, archived, fork, parent) ==
    ProviderPayload(owner \o "/" \o name, TRUE, owner, name, archived, fork, parent, NoLicense)

convertGitLabProject(p) ==
    [FullName |-> p.full_name,
     Owner |-> IF p.has_owner THEN p.owner ELSE "",
     Name |-> p.name,
     Archived |-> p.archived,
     License |-> IF p.license.present THEN p.license.key ELSE "",
     Fork |-> p.parent.present,
     SourceName |-> IF p.parent.present THEN p.parent.full_name ELSE ""]

\* r.Owner is read without a nil check: the payloads of the model have an owner
convertGiteaRepo(r) ==
    [FullName |-> r.full_name, Owner |-> r.owner, Name |-> r.name,
     Archived |-> r.archived,
     License |-> "",
     Fork |-> r.fork,
     SourceName |-> IF r.parent.present THEN r.parent.full_name ELSE ""]

PassesArchived(r, opts) ==
    CASE opts.Archived = ArchivedExclude -> ~r.Archived
      [] opts.Archived = ArchivedOnly -> r.Archived
      [] OTHER -> TRUE

PassesForks(r, opts) ==
    CASE opts.Forks = ForkExclude -> ~r.Fork
      [] opts.Forks = ForkOnly -> r.Fork
      [] OTHER -> TRUE

\* mutant: a repository passes when it passes either policy
FilterRepos_EitherPolicy(repos, opts) ==
    LET keep(r) == PassesArchived(r, opts) \/ PassesForks(r, opts)
    IN  SelectSeq(repos, keep)

FilterRepos(repos, opts) ==
    LET keep(r) == PassesArchived(r, opts) /\ PassesForks(r, opts)
    IN  SelectSeq(repos, keep)

(***************************************************************************)
(* Listing endpoints of a provider, and the adapters' ListRepositories.    *)
(***************************************************************************)

MaxRepos == 3
MaxFailPage == 2
MaxServerPage == 2
MaxPerPage == 2

GitLabDefaultPerPage == 100
GiteaDefaultPerPage == 50

Min(a, b) == IF a <= b THEN a ELSE b

\* the answer of endpoint ep to the request for page `page` of `perPage` items:
\* a failure on the page the endpoint fails at, else the page's slice of the
\* items, the server capping the page size at ep.serverMax
Serve(ep, page, perPage) ==
    LET eff == Min(perPage, ep.serverMax)
    IN  IF ep.failAt = page
        THEN [status |-> ep.failKind, items |-> <<>>, next |-> 0, body |-> "body"]
        ELSE [status |-> "200", body |-> "body",
              items |-> SubSeq(ep.items, (page - 1) * eff + 1, Min(page * eff, Len(ep.items))),
              next |-> IF page * eff < Len(ep.items) THEN page + 1 ELSE 0]

Request(name, page, ans) ==
    [ep |-> name, page |-> page, status |-> ans.status, items |-> ans.items]

convertGitLabProjects(items) == [i \in 1..Len(items) |-> convertGitLabProject(items[i])]

convertGiteaRepos(items) == [i \in 1..Len(items) |-> convertGiteaRepo(items[i])]

\* the error the SDK call's failure turns into: a 404 is the owner-not-found
\* sentinel, anything else is handed on as it is
ListError(status) ==
    CASE status = "404" -> ErrOwnerNotFound
      [] status = "neterr" -> ErrTransport
      [] OTHER -> ErrAPI

RECURSIVE gitLabWalk(_, _, _, _, _, _)
gitLabWalk(ep, name, perPage, page, all, reqs) ==
    LET ans == Serve(ep, page, perPage)
        seen == Append(reqs, Request(name, page, ans))
        got == all \o convertGitLabProjects(ans.items)
    IN  IF ans.status # "200"
        THEN [repos |-> <<>>, err |-> ListError(ans.status), reqs |-> seen]
        ELSE IF ans.next = 0
        THEN [repos |-> got, err |-> ErrNil, reqs |-> seen]
        ELSE gitLabWalk(ep, name, perPage, ans.next, got, seen)

listGroupProjects(srv, perPage) == gitLabWalk(srv.org, "org", perPage, 1, <<>>, <<>>)

listUserProjects(srv, perPage) == gitLabWalk(srv.user, "user", perPage, 1, <<>>, <<>>)

\* mutant: the group listing's error is returned without trying the user listing
gitLabListRepositories_NoFallback(srv, opts) ==
    LET perPage == IF opts.PerPage <= 0 THEN GitLabDefaultPerPage ELSE opts.PerPage
        grp == listGroupProjects(srv, perPage)
    IN  IF grp.err # ErrNil
        THEN [repos |-> <<>>, err |-> grp.err, reqs |-> grp.reqs]
        ELSE [repos |-> FilterRepos(grp.repos, opts), err |-> ErrNil, reqs |-> grp.reqs]

gitLabListRepositories(srv, opts) ==
    LET perPage == IF opts.PerPage <= 0 THEN GitLabDefaultPerPage ELSE opts.PerPage
        grp == listGroupProjects(srv, perPage)
        usr == listUserProjects(srv, perPage)
    IN  IF grp.err # ErrNil
        THEN IF usr.err # ErrNil
             THEN [repos |-> <<>>, err |-> usr.err, reqs |-> grp.reqs \o usr.reqs]
             ELSE [repos |-> FilterRepos(usr.repos, opts), err |-> ErrNil,
                   reqs |-> grp.reqs \o usr.reqs]
        ELSE [repos |-> FilterRepos(grp.repos, opts), err |-> ErrNil, reqs |-> grp.reqs]

RECURSIVE giteaWalk(_, _, _, _, _, _)
giteaWalk(ep, name, perPage, page, all, reqs) ==
    LET ans == Serve(ep, page, perPage)
        seen == Append(reqs, Request(name, page, ans))
        got == all \o convertGiteaRepos(ans.items)
    IN  IF ans.status # "200"
        THEN [repos |-> <<>>, err |-> ListError(ans.status), reqs |-> seen]
        ELSE IF Len(ans.items) < perPage
        THEN [repos |-> got, err |-> ErrNil, reqs |-> seen]
        ELSE giteaWalk(ep, name, perPage, page + 1, got, seen)

listOrgRepos(srv, perPage) == giteaWalk(srv.org, "org", perPage, 1, <<>>, <<>>)

\* mutant: a 404 of the user listing is reported as repository-not-found
listUserRepos_ErrNotFound(srv, perPage) ==
    LET r == giteaWalk(srv.user, "user", perPage, 1, <<>>, <<>>)
    IN  IF r.err = ErrOwnerNotFound THEN [r EXCEPT !.err = ErrNotFound] ELSE r

listUserRepos(srv, perPage) == giteaWalk(srv.user, "user", perPage, 1, <<>>, <<>>)

giteaListRepositories(srv, opts) ==
    LET perPage == IF opts.PerPage <= 0 THEN GiteaDefaultPerPage ELSE opts.PerPage
        org == listOrgRepos(srv, perPage)
        usr == listUserRepos(srv, perPage)
    IN  IF org.err # ErrNil
        THEN IF usr.err # ErrNil
             THEN [repos |-> <<>>, err |-> usr.err, reqs |-> org.reqs \o usr.reqs]
             ELSE [repos |-> FilterRepos(usr.repos, opts), err |-> ErrNil,
                   reqs |-> org.reqs \o usr.reqs]
        ELSE [repos |-> FilterRepos(org.repos, opts), err |-> ErrNil, reqs |-> org.reqs]

\* ---- the providers and calls of the listing specification ----

OrgPayloads ==
    << Payload("org", "active", FALSE, FALSE, NoRef),
       Payload("org", "archived", TRUE, FALSE, NoRef),
       Payload("org", "fork", FALSE, TRUE, Ref("up/fork")),
       Payload("org", "archived-fork", TRUE, TRUE, Ref("up/archived-fork")) >>

UserPayloads ==
    << Payload("usr", "fork", FALSE, TRUE, Ref("up/fork")),
       Payload("usr", "active", FALSE, FALSE, NoRef),
       Payload("usr", "archived", TRUE, FALSE, NoRef),
       Payload("usr", "archived-fork", TRUE, TRUE, Ref("up/archived-fork")) >>

\* a list of at most MaxRepos payloads, cycling through `from`
Owned(from, n) == [i \in 1..n |-> from[((i - 1) % Len(from)) + 1]]

FailKinds == {"404", "500", "neterr"}

Endpoints(from) ==
    {[items |-> Owned(from, n), serverMax |-> m, failAt |-> 0, failKind |-> "404"] :
        n \in 0..MaxRepos, m \in 1..MaxServerPage}
    \cup {[items |-> Owned(from, n), serverMax |-> m, failAt |-> f, failKind |-> k] :
        n \in 0..MaxRepos, m \in 1..MaxServerPage, f \in 1..MaxFailPage, k \in FailKinds}

ListServers ==
    {s \in [org : Endpoints(OrgPayloads), user : Endpoints(UserPayloads)] :
        s.org.serverMax = s.user.serverMax}

ListOptionsSet ==
    {[Archived |-> a, Forks |-> f, PerPage |-> n] :
        a \in {ArchivedInclude, ArchivedExclude, ArchivedOnly},
        f \in {ForkInclude, ForkExclude, ForkOnly},
        n \in 0..MaxPerPage}

ListInit ==
    /\ conc = Idle
    /\ lsrv \in ListServers
    /\ lopts \in ListOptionsSet
    /\ lout = Idle
    /\ world = Idle /\ det = Idle
    /\ client = Idle /\ copts = Idle /\ cout = Idle /\ detectRuns = Idle /\ regCalls = Idle
    /\ tsrv = Idle /\ tout = Idle /\ pin = Idle /\ pout = Idle /\ fin = Idle /\ fres = Idle

gitLabListRepositoriesStep ==
    /\ lout = Idle
    /\ lout' = [op |-> "ListRepositories", adapter |-> GitLab] @@ gitLabListRepositories(lsrv, lopts)
    /\ UNCHANGED <<lsrv, lopts, detVars, clientVars, fetchVars, parseVars, filterVars, concVars>>

giteaListRepositoriesStep ==
    /\ lout = Idle
    /\ lout' = [op |-> "ListRepositories", adapter |-> Gitea] @@ giteaListRepositories(lsrv, lopts)
    /\ UNCHANGED <<lsrv, lopts, detVars, clientVars, fetchVars, parseVars, filterVars, concVars>>

ListNext == gitLabListRepositoriesStep \/ giteaListRepositoriesStep

SpecList == ListInit /\ [][ListNext]_vars

(***************************************************************************)
(* URL parser (ParseRepoURL, splitOwnerRepo) on character sequences.       *)
(***************************************************************************)

Spaces == {" ", "\t", "\n"}

HasPrefix(s, p) == Len(s) >= Len(p) /\ SubSeq(s, 1, Len(p)) = p

HasSuffix(s, p) == Len(s) >= Len(p) /\ SubSeq(s, Len(s) - Len(p) + 1, Len(s)) = p

TrimPrefix(s, p) == IF HasPrefix(s, p) THEN SubSeq(s, Len(p) + 1, Len(s)) ELSE s

TrimSuffix(s, p) == IF HasSuffix(s, p) THEN SubSeq(s, 1, Len(s) - Len(p)) ELSE s

RECURSIVE TrimLeft(_, _)
TrimLeft(s, cutset) ==
    IF s # <<>> /\ s[1] \in cutset THEN TrimLeft(Tail(s), cutset) ELSE s

RECURSIVE TrimRight(_, _)
TrimRight(s, cutset) ==
    IF s # <<>> /\ s[Len(s)] \in cutset THEN TrimRight(SubSeq(s, 1, Len(s) - 1), cutset) ELSE s

\* strings.Trim
Trim(s, cutset) == TrimRight(TrimLeft(s, cutset), cutset)

TrimSpace(s) == Trim(s, Spaces)

\* strings.Index: the 0-based place of the first occurrence, -1 when there is none
Index(s, sub) ==
    IF Contains(s, sub)
    THEN CHOOSE i \in 0..(Len(s) - Len(sub)) :
             /\ SubSeq(s, i + 1, i + Len(sub)) = sub
             /\ \A j \in 0..(i - 1) : SubSeq(s, j + 1, j + Len(sub)) # sub
    ELSE -1

\* strings.LastIndex
LastIndex(s, sub) ==
    IF Contains(s, sub)
    THEN CHOOSE i \in 0..(Len(s) - Len(sub)) :
             /\ SubSeq(s, i + 1, i + Len(sub)) = sub
             /\ \A j \in (i + 1)..(Len(s) - Len(sub)) : SubSeq(s, j + 1, j + Len(sub)) # sub
    ELSE -1

\* s[:i] and s[i:] of Go, i 0-based
Before(s, i) == SubSeq(s, 1, i)

From(s, i) == SubSeq(s, i + 1, Len(s))

\* strings.Split on a one-character separator
RECURSIVE Split(_, _)
Split(s, sep) ==
    IF Index(s, sep) < 0 THEN <<s>>
    ELSE <<Before(s, Index(s, sep))>> \o Split(From(s, Index(s, sep) + 1), sep)

StrGitAt == <<"g", "i", "t", "@">>
StrDotGit == <<".", "g", "i", "t">>
StrSchemeSep == <<":", "/", "/">>
StrHttps == <<"h", "t", "t", "p", "s", ":", "/", "/">>

Letters ==
    {"a", "b", "c", "d", "e", "f", "g", "h", "i", "j", "k", "l", "m", "n", "o", "p", "q",
     "r", "s", "t", "u", "v", "w", "x", "y", "z", "F", "O", "R", "G", "E", "J"}

Digits == {"0", "1", "2", "3", "4", "5", "6", "7", "8", "9"}

SchemeChars == Letters \cup Digits \cup {"+", "-", "."}

\* characters net/url refuses in a host name
BadHostChars == {" ", "\t", "\n", "/", "?", "#", "@", "%", "^", "|"}

ErrEmptyURL == "empty URL"
ErrMissingColon == "invalid SSH URL: missing colon"
ErrInvalidURL == "invalid URL"
ErrNoOwnerRepo == "URL path must contain owner/repo"

ParseFailure(e) == [err |-> e, domain |-> <<>>, owner |-> <<>>, repo |-> <<>>]

\* mutant: the ".git" suffix is left on the path
splitOwnerRepo_KeepDotGit(domain, path) ==
    LET parts == Split(Trim(path, {"/"}), <<"/">>)
    IN  IF Len(parts) < 2 THEN ParseFailure(ErrNoOwnerRepo)
        ELSE [err |-> ErrNil, domain |-> domain, owner |-> parts[1], repo |-> parts[2]]

\* mutant: a path of one segment is taken for an owner without a repository
splitOwnerRepo_SingleSegment(domain, path) ==
    LET parts == Split(Trim(TrimSuffix(path, StrDotGit), {"/"}), <<"/">>)
    IN  IF Len(parts) < 2
        THEN [err |-> ErrNil, domain |-> domain, owner |-> parts[1], repo |-> <<>>]
        ELSE [err |-> ErrNil, domain |-> domain, owner |-> parts[1], repo |-> parts[2]]

splitOwnerRepo(domain, path) ==
    LET parts == Split(Trim(TrimSuffix(path, StrDotGit), {"/"}), <<"/">>)
    IN  IF Len(parts) < 2 THEN ParseFailure(ErrNoOwnerRepo)
        ELSE [err |-> ErrNil, domain |-> domain, owner |-> parts[1], repo |-> parts[2]]

\* net/url getScheme: the scheme is what precedes the first ':' when only scheme
\* characters, a letter first, precede it
getScheme(raw) ==
    LET stops == {i \in 1..Len(raw) : raw[i] \notin SchemeChars \/ (i = 1 /\ raw[i] \notin Letters)}
        stop == CHOOSE i \in stops : \A j \in stops : i <= j
    IN  IF stops = {} THEN [err |-> FALSE, scheme |-> <<>>, rest |-> raw]
        ELSE IF raw[stop] # ":" THEN [err |-> FALSE, scheme |-> <<>>, rest |-> raw]
        ELSE IF stop = 1 THEN [err |-> TRUE, scheme |-> <<>>, rest |-> <<>>]
        ELSE [err |-> FALSE, scheme |-> Before(raw, stop - 1), rest |-> From(raw, stop)]

\* net/url validOptionalPort
validOptionalPort(port) ==
    port = <<>> \/ (port[1] = ":" /\ \A i \in 2..Len(port) : port[i] \in Digits)

\* net/url parseAuthority and parseHost: the host follows the last '@'; what
\* follows its last ':' must be a port number
parseAuthority(authority) ==
    LET at == LastIndex(authority, <<"@">>)
        host == IF at < 0 THEN authority ELSE From(authority, at + 1)
        colon == LastIndex(host, <<":">>)
    IN  IF colon >= 0 /\ ~validOptionalPort(From(host, colon)) THEN [err |-> TRUE, host |-> <<>>]
        ELSE IF \E i \in 1..Len(host) : host[i] \in BadHostChars THEN [err |-> TRUE, host |-> <<>>]
        ELSE [err |-> FALSE, host |-> host]

\* URL.Hostname: the host without its port
Hostname(host) ==
    IF LastIndex(host, <<":">>) >= 0 /\ validOptionalPort(From(host, LastIndex(host, <<":">>)))
    THEN Before(host, LastIndex(host, <<":">>))
    ELSE host

CutBefore(s, sep) == IF Index(s, sep) < 0 THEN s ELSE Before(s, Index(s, sep))

\* net/url Parse, as far as ParseRepoURL reads its result: the host and the path
urlParse(rawURL) ==
    LET sch == getScheme(CutBefore(rawURL, <<"#">>))
        rest == CutBefore(sch.rest, <<"?">>)
        afterSlashes == From(rest, 2)
        cut == Index(afterSlashes, <<"/">>)
        authority == IF cut < 0 THEN afterSlashes ELSE Before(afterSlashes, cut)
        path == IF cut < 0 THEN <<>> ELSE From(afterSlashes, cut)
    IN  IF \E i \in 1..Len(rawURL) : rawURL[i] \in {"\t", "\n"} THEN [err |-> TRUE, host |-> <<>>, path |-> <<>>]
        ELSE IF sch.err THEN [err |-> TRUE, host |-> <<>>, path |-> <<>>]
        ELSE IF ~HasPrefix(rest, <<"/">>)
        THEN IF sch.scheme # <<>> THEN [err |-> FALSE, host |-> <<>>, path |-> <<>>]
             ELSE IF Contains(CutBefore(rest, <<"/">>), <<":">>)
             THEN [err |-> TRUE, host |-> <<>>, path |-> <<>>]
             ELSE [err |-> FALSE, host |-> <<>>, path |-> rest]
        ELSE IF HasPrefix(rest, <<"/", "/">>) /\ (sch.scheme # <<>> \/ ~HasPrefix(rest, <<"/", "/", "/">>))
        THEN IF parseAuthority(authority).err THEN [err |-> TRUE, host |-> <<>>, path |-> <<>>]
             ELSE [err |-> FALSE, host |-> parseAuthority(authority).host, path |-> path]
        ELSE [err |-> FALSE, host |-> <<>>, path |-> rest]

\* mutant: any user name before the "@" makes the reference an SSH one
ParseRepoURL_AnyUser(rawURL) ==
    LET trimmed == TrimSpace(rawURL)
        at == Index(trimmed, <<"@">>)
        ssh == From(trimmed, at + 1)
        colonIdx == Index(ssh, <<":">>)
        withScheme == IF Contains(trimmed, StrSchemeSep) THEN trimmed ELSE StrHttps \o trimmed
        u == urlParse(withScheme)
    IN  IF trimmed = <<>> THEN ParseFailure(ErrEmptyURL)
        ELSE IF at >= 0 /\ ~Contains(trimmed, StrSchemeSep)
        THEN IF colonIdx < 0 THEN ParseFailure(ErrMissingColon)
             ELSE splitOwnerRepo(Before(ssh, colonIdx), From(ssh, colonIdx + 1))
        ELSE IF u.err THEN ParseFailure(ErrInvalidURL)
        ELSE splitOwnerRepo(Hostname(u.host), u.path)

ParseRepoURL(rawURL) ==
    LET trimmed == TrimSpace(rawURL)
        ssh == TrimPrefix(trimmed, StrGitAt)
        colonIdx == Index(ssh, <<":">>)
        withScheme == IF Contains(trimmed, StrSchemeSep) THEN trimmed ELSE StrHttps \o trimmed
        u == urlParse(withScheme)
    IN  IF trimmed = <<>> THEN ParseFailure(ErrEmptyURL)
        ELSE IF HasPrefix(trimmed, StrGitAt)
        THEN IF colonIdx < 0 THEN ParseFailure(ErrMissingColon)
             ELSE splitOwnerRepo(Before(ssh, colonIdx), From(ssh, colonIdx + 1))
        ELSE IF u.err THEN ParseFailure(ErrInvalidURL)
        ELSE splitOwnerRepo(Hostname(u.host), u.path)

(***************************************************************************)
(* Client: the registry, its construction and its routing.                 *)
(***************************************************************************)

StrGithubCom == <<"g", "i", "t", "h", "u", "b", ".", "c", "o", "m">>
StrGitlabCom == <<"g", "i", "t", "l", "a", "b", ".", "c", "o", "m">>
StrCodebergOrg == <<"c", "o", "d", "e", "b", "e", "r", "g", ".", "o", "r", "g">>
StrBitbucketOrg == <<"b", "i", "t", "b", "u", "c", "k", "e", "t", ".", "o", "r", "g">>
StrExIo == <<"e", "x", ".", "i", "o">>
StrApiV4 == <<"/", "a", "p", "i", "/", "v", "4">>

DefaultDomains == {StrGithubCom, StrGitlabCom, StrCodebergOrg, StrBitbucketOrg}

ErrNoForge == "no forge registered for domain"
ErrDetecting == "detecting forge type"
ErrUnsupported == "unsupported forge type"

NilHC == "nil"

\* an adapter as it was constructed; auth says whether its requests carry the
\* authorization of the token
newGitHubForge(token, hc) ==
    [kind |-> GitHub, base |-> <<>>, token |-> token, hc |-> hc, auth |-> token # ""]

\* WithAuthToken is called whatever the token is
newGitHubForgeWithBase(baseURL, token, hc) ==
    [kind |-> GitHub, base |-> baseURL, token |-> token, hc |-> hc, auth |-> TRUE]

\* the token is handed to the SDK's NewClient, which sends the token it has
newGitLabForge(baseURL, token, hc) ==
    [kind |-> GitLab, base |-> baseURL \o StrApiV4, token |-> token, hc |-> hc,
     auth |-> token # ""]

newGiteaForge(baseURL, token, hc) ==
    [kind |-> Gitea, base |-> baseURL, token |-> token, hc |-> hc, auth |-> token # ""]

\* getJSON sets the Authorization header when the token is not empty
newBitbucketForge(token, hc) ==
    [kind |-> Bitbucket, base |-> <<>>, token |-> token,
     hc |-> IF hc = NilHC THEN "http.DefaultClient" ELSE hc, auth |-> token # ""]

\* m[k] = v of a Go map
Put(m, k, v) == [x \in (DOMAIN m) \cup {k} |-> IF x = k THEN v ELSE m[x]]

\* m[k] of a Go map of strings: "" when k is not in it
TokenOf(c, domain) == IF domain \in DOMAIN c.tokens THEN c.tokens[domain] ELSE ""

EmptyClient == [forges |-> <<>>, tokens |-> <<>>, httpClient |-> NilHC]

WithToken(domain, token) ==
    [type |-> "WithToken", domain |-> domain, token |-> token, hc |-> NilHC]

WithHTTPClient(hc) ==
    [type |-> "WithHTTPClient", domain |-> <<>>, token |-> "", hc |-> hc]

WithGitea(domain, token) ==
    [type |-> "WithGitea", domain |-> domain, token |-> token, hc |-> NilHC]

WithGitLab(domain, token) ==
    [type |-> "WithGitLab", domain |-> domain, token |-> token, hc |-> NilHC]

\* mutant: WithGitea and WithGitLab do not record the token in the token map
ApplyOption_TokenNotRecorded(c, o) ==
    CASE o.type = "WithToken" ->
            [c EXCEPT !.tokens = Put(c.tokens, o.domain, o.token)]
      [] o.type = "WithHTTPClient" ->
            [c EXCEPT !.httpClient = o.hc]
      [] o.type = "WithGitea" ->
            [c EXCEPT !.forges = Put(c.forges, o.domain,
                                     newGiteaForge(StrHttps \o o.domain, o.token, c.httpClient))]
      [] o.type = "WithGitLab" ->
            [c EXCEPT !.forges = Put(c.forges, o.domain,
                                     newGitLabForge(StrHttps \o o.domain, o.token, c.httpClient))]

\* opt(c)
ApplyOption(c, o) ==
    CASE o.type = "WithToken" ->
            [c EXCEPT !.tokens = Put(c.tokens, o.domain, o.token)]
      [] o.type = "WithHTTPClient" ->
            [c EXCEPT !.httpClient = o.hc]
      [] o.type = "WithGitea" ->
            [c EXCEPT !.tokens = Put(c.tokens, o.domain, o.token),
                      !.forges = Put(c.forges, o.domain,
                                     newGiteaForge(StrHttps \o o.domain, o.token, c.httpClient))]
      [] o.type = "WithGitLab" ->
            [c EXCEPT !.tokens = Put(c.tokens, o.domain, o.token),
                      !.forges = Put(c.forges, o.domain,
                                     newGitLabForge(StrHttps \o o.domain, o.token, c.httpClient))]

RECURSIVE ApplyOptions(_, _)
ApplyOptions(c, opts) ==
    IF opts = <<>> THEN c ELSE ApplyOptions(ApplyOption(c, Head(opts)), Tail(opts))

\* c.forges[domain] = f unless the domain is registered already
RegisterDefault(c, domain, f) ==
    IF domain \in DOMAIN c.forges THEN c ELSE [c EXCEPT !.forges = Put(c.forges, domain, f)]

\* mutant: the default registrations overwrite what the options registered
NewClient_DefaultsOverwrite(opts) ==
    LET c0 == ApplyOptions(EmptyClient, opts)
        c1 == [c0 EXCEPT !.forges = Put(c0.forges, StrGithubCom,
                   newGitHubForge(TokenOf(c0, StrGithubCom), c0.httpClient))]
        c2 == [c1 EXCEPT !.forges = Put(c1.forges, StrGitlabCom,
                   newGitLabForge(StrHttps \o StrGitlabCom, TokenOf(c1, StrGitlabCom), c1.httpClient))]
        c3 == [c2 EXCEPT !.forges = Put(c2.forges, StrCodebergOrg,
                   newGiteaForge(StrHttps \o StrCodebergOrg, TokenOf(c2, StrCodebergOrg), c2.httpClient))]
    IN  [c3 EXCEPT !.forges = Put(c3.forges, StrBitbucketOrg,
                   newBitbucketForge(TokenOf(c3, StrBitbucketOrg), c3.httpClient))]

\* mutant: the default adapters are built without the configured HTTP client
NewClient_DefaultTransport(opts) ==
    LET c0 == ApplyOptions(EmptyClient, opts)
        c1 == RegisterDefault(c0, StrGithubCom,
                  newGitHubForge(TokenOf(c0, StrGithubCom), NilHC))
        c2 == RegisterDefault(c1, StrGitlabCom,
                  newGitLabForge(StrHttps \o StrGitlabCom, TokenOf(c1, StrGitlabCom), NilHC))
        c3 == RegisterDefault(c2, StrCodebergOrg,
                  newGiteaForge(StrHttps \o StrCodebergOrg, TokenOf(c2, StrCodebergOrg), NilHC))
    IN  RegisterDefault(c3, StrBitbucketOrg,
                  newBitbucketForge(TokenOf(c3, StrBitbucketOrg), NilHC))

NewClient(opts) ==
    LET c0 == ApplyOptions(EmptyClient, opts)
        c1 == RegisterDefault(c0, StrGithubCom,
                  newGitHubForge(TokenOf(c0, StrGithubCom), c0.httpClient))
        c2 == RegisterDefault(c1, StrGitlabCom,
                  newGitLabForge(StrHttps \o StrGitlabCom, TokenOf(c1, StrGitlabCom), c1.httpClient))
        c3 == RegisterDefault(c2, StrCodebergOrg,
                  newGiteaForge(StrHttps \o StrCodebergOrg, TokenOf(c2, StrCodebergOrg), c2.httpClient))
    IN  RegisterDefault(c3, StrBitbucketOrg,
                  newBitbucketForge(TokenOf(c3, StrBitbucketOrg), c3.httpClient))

\* what an operation of the Client leaves behind: the Client after it, the value
\* and error it returns, the adapter calls it made and the domains it ran the
\* detector on
Outcome(c, ret, err, calls, detects) ==
    [c |-> c, ret |-> ret, err |-> err, calls |-> calls, detects |-> detects]

\* mutant: the token is recorded before the detector runs
RegisterDomain_TokenFirst(c, domain, token, w) ==
    LET ft == DetectForgeType(w)
        withToken == [c EXCEPT !.tokens = Put(c.tokens, domain, token)]
        baseURL == StrHttps \o domain
        registered(f) == [withToken EXCEPT !.forges = Put(c.forges, domain, f)]
    IN  IF ft.err # ErrNil THEN Outcome(withToken, "nil", ErrDetecting, <<>>, <<domain>>)
        ELSE CASE ft.ft = GitHub ->
                    Outcome(registered(newGitHubForgeWithBase(baseURL, token, c.httpClient)),
                            "nil", ErrNil, <<>>, <<domain>>)
               [] ft.ft = GitLab ->
                    Outcome(registered(newGitLabForge(baseURL, token, c.httpClient)),
                            "nil", ErrNil, <<>>, <<domain>>)
               [] ft.ft \in {Gitea, Forgejo} ->
                    Outcome(registered(newGiteaForge(baseURL, token, c.httpClient)),
                            "nil", ErrNil, <<>>, <<domain>>)
               [] OTHER -> Outcome(withToken, "nil", ErrUnsupported, <<>>, <<domain>>)

RegisterDomain(c, domain, token, w) ==
    LET ft == DetectForgeType(w)
        withToken == [c EXCEPT !.tokens = Put(c.tokens, domain, token)]
        baseURL == StrHttps \o domain
        registered(f) == [withToken EXCEPT !.forges = Put(c.forges, domain, f)]
    IN  IF ft.err # ErrNil THEN Outcome(c, "nil", ErrDetecting, <<>>, <<domain>>)
        ELSE CASE ft.ft = GitHub ->
                    Outcome(registered(newGitHubForgeWithBase(baseURL, token, c.httpClient)),
                            "nil", ErrNil, <<>>, <<domain>>)
               [] ft.ft = GitLab ->
                    Outcome(registered(newGitLabForge(baseURL, token, c.httpClient)),
                            "nil", ErrNil, <<>>, <<domain>>)
               [] ft.ft \in {Gitea, Forgejo} ->
                    Outcome(registered(newGiteaForge(baseURL, token, c.httpClient)),
                            "nil", ErrNil, <<>>, <<domain>>)
               [] OTHER -> Outcome(withToken, "nil", ErrUnsupported, <<>>, <<domain>>)

forgeFor(c, domain) ==
    IF domain \notin DOMAIN c.forges THEN [err |-> ErrNoForge, f |-> Idle]
    ELSE [err |-> ErrNil, f |-> c.forges[domain]]

\* one call of a Forge method: the adapter called, the method and its arguments
Call(f, method, owner, repo) ==
    [adapter |-> f, method |-> method, owner |-> owner, repo |-> repo]

\* mutant: a fetch for an unregistered domain runs the detector on it
FetchRepository_AutoDetect(c, repoURL, ans) ==
    LET p == ParseRepoURL(repoURL)
        r == forgeFor(c, p.domain)
    IN  IF p.err # ErrNil THEN Outcome(c, "nil", p.err, <<>>, <<>>)
        ELSE IF r.err # ErrNil THEN Outcome(c, "nil", r.err, <<>>, <<p.domain>>)
        ELSE Outcome(c, ans.value, ans.err, <<Call(r.f, "FetchRepository", p.owner, p.repo)>>, <<>>)

\* ans is what the adapter's FetchRepository returns when it is called
FetchRepository(c, repoURL, ans) ==
    LET p == ParseRepoURL(repoURL)
        r == forgeFor(c, p.domain)
    IN  IF p.err # ErrNil THEN Outcome(c, "nil", p.err, <<>>, <<>>)
        ELSE IF r.err # ErrNil THEN Outcome(c, "nil", r.err, <<>>, <<>>)
        ELSE Outcome(c, ans.value, ans.err, <<Call(r.f, "FetchRepository", p.owner, p.repo)>>, <<>>)

\* mutant: owner and repo change places in the adapter call
FetchTags_Swapped(c, repoURL, ans) ==
    LET p == ParseRepoURL(repoURL)
        r == forgeFor(c, p.domain)
    IN  IF p.err # ErrNil THEN Outcome(c, "nil", p.err, <<>>, <<>>)
        ELSE IF r.err # ErrNil THEN Outcome(c, "nil", r.err, <<>>, <<>>)
        ELSE Outcome(c, ans.value, ans.err, <<Call(r.f, "FetchTags", p.repo, p.owner)>>, <<>>)

\* mutant: a fetch of tags for an unregistered domain runs the detector on it
FetchTags_AutoDetect(c, repoURL, ans) ==
    LET p == ParseRepoURL(repoURL)
        r == forgeFor(c, p.domain)
    IN  IF p.err # ErrNil THEN Outcome(c, "nil", p.err, <<>>, <<>>)
        ELSE IF r.err # ErrNil THEN Outcome(c, "nil", r.err, <<>>, <<p.domain>>)
        ELSE Outcome(c, ans.value, ans.err, <<Call(r.f, "FetchTags", p.owner, p.repo)>>, <<>>)

\* ans is what the adapter's FetchTags returns when it is called
FetchTags(c, repoURL, ans) ==
    LET p == ParseRepoURL(repoURL)
        r == forgeFor(c, p.domain)
    IN  IF p.err # ErrNil THEN Outcome(c, "nil", p.err, <<>>, <<>>)
        ELSE IF r.err # ErrNil THEN Outcome(c, "nil", r.err, <<>>, <<>>)
        ELSE Outcome(c, ans.value, ans.err, <<Call(r.f, "FetchTags", p.owner, p.repo)>>, <<>>)

\* ---- the options, URLs and servers of the client specifications ----

MaxOpts == 2
MaxRegister == 2

Tokens == {"", "tok"}

KnownDomains == DefaultDomains \cup {StrExIo}

OptionDomains == DefaultDomains \cup {StrExIo}

Options ==
    {WithToken(d, t) : d \in OptionDomains, t \in Tokens}
    \cup {WithGitea(d, t) : d \in OptionDomains, t \in Tokens}
    \cup {WithGitLab(d, t) : d \in OptionDomains, t \in Tokens}
    \cup {WithHTTPClient("hc1"), WithHTTPClient("hc2")}

OptionLists == UNION {[1..n -> Options] : n \in 0..MaxOpts}

InitOptionLists ==
    { <<>>,
      <<WithGitea(StrExIo, "tok")>>,
      <<WithHTTPClient("hc1"), WithToken(StrGithubCom, "tok"), WithGitLab(StrGitlabCom, ""),
        WithToken(StrGitlabCom, "tok")>> }

RegisterDomains == {StrExIo, StrGitlabCom}

URLs ==
    { <<"h", "t", "t", "p", "s", ":", "/", "/", "g", "i", "t", "h", "u", "b", ".", "c", "o", "m", "/", "o", "/", "r">>,
      <<"g", "i", "t", "@", "e", "x", ".", "i", "o", ":", "o", "/", "r", ".", "g", "i", "t">>,
      <<"g", "i", "t", "l", "a", "b", ".", "c", "o", "m", "/", "g", "/", "p", "/", "t", "r", "e", "e", "/", "m">>,
      <<"h", "t", "t", "p", "s", ":", "/", "/", "g", "i", "t", "h", "u", "b", ".", "c", "o", "m", "/", "o">> }

\* what a registered adapter answers when it is called
AdapterAnswers ==
    { [value |-> "v1", err |-> ErrNil],
      [value |-> "nil", err |-> ErrNotFound] }

Silent == [err |-> FALSE, header |-> <<>>]

Answer(s) == [err |-> FALSE, status |-> s]

V1NotFound == [err |-> FALSE, status |-> 404, body |-> NoBody]

\* one server for each way a detection can end
ClientWorlds ==
    { [root |-> [err |-> FALSE, header |-> [n \in {"X-Forgejo-Version"} |-> "v"]],
       v1 |-> V1NotFound, v4 |-> Answer(404), v3 |-> Answer(404)],
      [root |-> [err |-> TRUE, header |-> <<>>],
       v1 |-> V1NotFound, v4 |-> Answer(200), v3 |-> Answer(404)],
      [root |-> Silent, v1 |-> V1NotFound, v4 |-> Answer(404), v3 |-> Answer(200)],
      [root |-> [err |-> TRUE, header |-> <<>>],
       v1 |-> V1NotFound, v4 |-> Answer(404), v3 |-> Answer(500)] }

NoRuns == [d \in KnownDomains |-> 0]

\* the detector runs of an operation added to the count
Counted(runs, detects) ==
    [d \in KnownDomains |-> runs[d] + Cardinality({i \in 1..Len(detects) : detects[i] = d})]

\* ---- construction ----

NewInit ==
    /\ conc = Idle
    /\ client = Idle
    /\ copts = <<>>
    /\ cout = Idle
    /\ detectRuns = NoRuns
    /\ regCalls = NoRuns
    /\ world = Idle /\ det = Idle
    /\ lsrv = Idle /\ lopts = Idle /\ lout = Idle
    /\ tsrv = Idle /\ tout = Idle /\ pin = Idle /\ pout = Idle /\ fin = Idle /\ fres = Idle

NewClientStep ==
    /\ client = Idle
    /\ \E opts \in OptionLists :
        /\ client' = NewClient(opts)
        /\ copts' = opts
    /\ UNCHANGED <<cout, detectRuns, regCalls, detVars, listVars, fetchVars, parseVars, filterVars, concVars>>

SpecNew == NewInit /\ [][NewClientStep]_vars

\* ---- operations on a constructed Client ----

Init ==
    /\ conc = Idle
    /\ copts \in InitOptionLists
    /\ client = NewClient(copts)
    /\ cout = Idle
    /\ detectRuns = NoRuns
    /\ regCalls = NoRuns
    /\ world = Idle /\ det = Idle
    /\ lsrv = Idle /\ lopts = Idle /\ lout = Idle
    /\ tsrv = Idle /\ tout = Idle /\ pin = Idle /\ pout = Idle /\ fin = Idle /\ fres = Idle

Done(op, arg, ans, before, out) ==
    [op |-> op, arg |-> arg, ans |-> ans, before |-> before,
     ret |-> out.ret, err |-> out.err, calls |-> out.calls, detects |-> out.detects]

RegisterDomainStep ==
    \E domain \in RegisterDomains, token \in Tokens, w \in ClientWorlds :
        /\ regCalls[domain] < MaxRegister
        /\ \E out \in {RegisterDomain(client, domain, token, w)} :
            /\ client' = out.c
            /\ cout' = Done("RegisterDomain", [domain |-> domain, token |-> token], w,
                            client, out)
            /\ detectRuns' = Counted(detectRuns, out.detects)
        /\ regCalls' = [regCalls EXCEPT ![domain] = @ + 1]
        /\ UNCHANGED <<copts, detVars, listVars, fetchVars, parseVars, filterVars, concVars>>

FetchRepositoryStep ==
    \E repoURL \in URLs, ans \in AdapterAnswers :
        \E out \in {FetchRepository(client, repoURL, ans)} :
            /\ client' = out.c
            /\ cout' = Done("FetchRepository", repoURL, ans, client, out)
            /\ detectRuns' = Counted(detectRuns, out.detects)
            /\ UNCHANGED <<copts, regCalls, detVars, listVars, fetchVars, parseVars, filterVars, concVars>>

FetchTagsStep ==
    \E repoURL \in URLs, ans \in AdapterAnswers :
        \E out \in {FetchTags(client, repoURL, ans)} :
            /\ client' = out.c
            /\ cout' = Done("FetchTags", repoURL, ans, client, out)
            /\ detectRuns' = Counted(detectRuns, out.detects)
            /\ UNCHANGED <<copts, regCalls, detVars, listVars, fetchVars, parseVars, filterVars, concVars>>

Next == RegisterDomainStep \/ FetchRepositoryStep \/ FetchTagsStep

Spec == Init /\ [][Next]_vars

(***************************************************************************)
(* Adapter calls: FetchTags and FetchRepository against a provider.        *)
(***************************************************************************)

ErrHTTP == "HTTPError"
ErrCanceled == "context canceled"

NoInfo == [StatusCode |-> "", URL |-> <<>>, Body |-> ""]

\* &HTTPError{StatusCode: ..., URL: ..., Body: ...}
HTTPError(status, url, body) == [StatusCode |-> status, URL |-> url, Body |-> body]

GitHubTagsPerPage == 100
GitLabTagsPerPage == 100
GiteaTagsPageSize == 50
BitbucketPageLen == 100

\* the caller's context: the number of requests after which it is cancelled
NeverCancelled == -1

Cancelled(ctx, reqs) == ctx # NeverCancelled /\ Len(reqs) >= ctx

\* one tag as a provider's payload carries it
TagPayload(i) ==
    [name |-> i, commit |-> [present |-> i % 3 # 0, sha |-> IF i % 3 # 0 THEN <<i>> ELSE <<>>]]

\* Tag{Name: t.Name}, with Commit set when the payload has a commit
convertTag(t) == [Name |-> t.name, Commit |-> IF t.commit.present THEN t.commit.sha ELSE <<>>]

convertTags(items) == [i \in 1..Len(items) |-> convertTag(items[i])]

\* the result of a tag fetch: the tags, the error with its fields, and the
\* requests that reached the provider, in the order they were made
TagResult(tags, err, info, reqs) == [tags |-> tags, err |-> err, info |-> info, reqs |-> reqs]

\* what an SDK call's error becomes: a 404 response is the not-found sentinel,
\* anything else is the SDK's own error, handed on as it is
SDKFetchError(status) ==
    CASE status = "404" -> ErrNotFound
      [] status = "neterr" -> ErrTransport
      [] status = "200-undecodable" -> ErrDecode
      [] OTHER -> ErrAPI

RECURSIVE gitHubFetchTagsWalk(_, _, _, _, _)
gitHubFetchTagsWalk(ep, ctx, page, allTags, reqs) ==
    IF Cancelled(ctx, reqs) THEN TagResult(<<>>, ErrCanceled, NoInfo, reqs)
    ELSE LET ans == Serve(ep, IF page = 0 THEN 1 ELSE page, GitHubTagsPerPage)
             seen == Append(reqs, Request("tags", IF page = 0 THEN 1 ELSE page, ans))
             got == allTags \o convertTags(ans.items)
         IN  IF ans.status # "200" THEN TagResult(<<>>, SDKFetchError(ans.status), NoInfo, seen)
             ELSE IF ans.next = 0 THEN TagResult(got, ErrNil, NoInfo, seen)
             ELSE gitHubFetchTagsWalk(ep, ctx, ans.next, got, seen)

gitHubFetchTags(srv) == gitHubFetchTagsWalk(srv.tags, srv.ctx, 0, <<>>, <<>>)

\* the GitLab SDK call is made without the caller's context
RECURSIVE gitLabFetchTagsWalk(_, _, _, _)
gitLabFetchTagsWalk(ep, page, allTags, reqs) ==
    LET ans == Serve(ep, IF page = 0 THEN 1 ELSE page, GitLabTagsPerPage)
        seen == Append(reqs, Request("tags", IF page = 0 THEN 1 ELSE page, ans))
        got == allTags \o convertTags(ans.items)
    IN  IF ans.status # "200" THEN TagResult(<<>>, SDKFetchError(ans.status), NoInfo, seen)
        ELSE IF ans.next = 0 THEN TagResult(got, ErrNil, NoInfo, seen)
        ELSE gitLabFetchTagsWalk(ep, ans.next, got, seen)

gitLabFetchTags(srv) == gitLabFetchTagsWalk(srv.tags, 0, <<>>, <<>>)

\* the Gitea SDK call is made without the caller's context
RECURSIVE giteaFetchTagsWalk(_, _, _, _)
giteaFetchTagsWalk(ep, page, allTags, reqs) ==
    LET ans == Serve(ep, page, GiteaTagsPageSize)
        seen == Append(reqs, Request("tags", page, ans))
        got == allTags \o convertTags(ans.items)
    IN  IF ans.status # "200" THEN TagResult(<<>>, SDKFetchError(ans.status), NoInfo, seen)
        ELSE IF Len(ans.items) < GiteaTagsPageSize THEN TagResult(got, ErrNil, NoInfo, seen)
        ELSE giteaFetchTagsWalk(ep, page + 1, got, seen)

giteaFetchTags(srv) == giteaFetchTagsWalk(srv.tags, 1, <<>>, <<>>)

\* the URL of a page of the Bitbucket tag listing; NoURL is the empty string
NoURL == 0

\* bitbucketForge.getJSON: [err, info, reqs, ans]
getJSON(ep, ctx, url, reqs) ==
    IF Cancelled(ctx, reqs) THEN [err |-> ErrCanceled, info |-> NoInfo, reqs |-> reqs, ans |-> Idle]
    ELSE LET ans == Serve(ep, url, BitbucketPageLen)
             seen == Append(reqs, Request("tags", url, ans))
         IN  CASE ans.status = "neterr" ->
                    [err |-> ErrTransport, info |-> NoInfo, reqs |-> seen, ans |-> ans]
               [] ans.status = "404" ->
                    [err |-> ErrNotFound, info |-> NoInfo, reqs |-> seen, ans |-> ans]
               [] ans.status = "200-undecodable" ->
                    [err |-> ErrDecode, info |-> NoInfo, reqs |-> seen, ans |-> ans]
               [] ans.status # "200" ->
                    [err |-> ErrHTTP, info |-> HTTPError(ans.status, <<"tags", url>>, ans.body),
                     reqs |-> seen, ans |-> ans]
               [] OTHER -> [err |-> ErrNil, info |-> NoInfo, reqs |-> seen, ans |-> ans]

\* mutant: the tags of the pages before a failing page are returned with the error
RECURSIVE bitbucketFetchTagsWalk_KeepPartial(_, _, _, _, _)
bitbucketFetchTagsWalk_KeepPartial(ep, ctx, url, allTags, reqs) ==
    IF url = NoURL THEN TagResult(allTags, ErrNil, NoInfo, reqs)
    ELSE LET page == getJSON(ep, ctx, url, reqs)
         IN  IF page.err # ErrNil THEN TagResult(allTags, page.err, page.info, page.reqs)
             ELSE bitbucketFetchTagsWalk_KeepPartial(ep, ctx, page.ans.next,
                        allTags \o convertTags(page.ans.items), page.reqs)

\* mutant: the walk stops after the first page
bitbucketFetchTagsWalk_FirstPageOnly(ep, ctx, url, allTags, reqs) ==
    LET page == getJSON(ep, ctx, url, reqs)
    IN  IF page.err # ErrNil THEN TagResult(<<>>, page.err, page.info, page.reqs)
        ELSE TagResult(convertTags(page.ans.items), ErrNil, NoInfo, page.reqs)

RECURSIVE bitbucketFetchTagsWalk(_, _, _, _, _)
bitbucketFetchTagsWalk(ep, ctx, url, allTags, reqs) ==
    IF url = NoURL THEN TagResult(allTags, ErrNil, NoInfo, reqs)
    ELSE LET page == getJSON(ep, ctx, url, reqs)
         IN  IF page.err # ErrNil THEN TagResult(<<>>, page.err, page.info, page.reqs)
             ELSE bitbucketFetchTagsWalk(ep, ctx, page.ans.next,
                        allTags \o convertTags(page.ans.items), page.reqs)

bitbucketFetchTags(srv) == bitbucketFetchTagsWalk(srv.tags, srv.ctx, 1, <<>>, <<>>)

\* the result of a repository fetch: the repository (NilRepo when there is
\* none), the error with its fields, and the requests that reached the provider
NilRepo == [nil |-> TRUE]

RepoResult(repo, err, info, reqs) == [repo |-> repo, err |-> err, info |-> info, reqs |-> reqs]

RepoRequest(name, status) == [ep |-> name, page |-> 0, status |-> status, items |-> <<>>]

\* the SDKs take every 2xx status for a success
SDKSuccess(status) == status \in {"200", "204"}

convertGitHubRepo(r) ==
    [FullName |-> r.full_name,
     Owner |-> IF r.has_owner THEN r.owner ELSE "",
     Name |-> r.name,
     Archived |-> r.archived,
     License |-> IF r.license.present /\ r.license.key # "" /\ r.license.key # NoAssertion
                 THEN r.license.key ELSE "",
     Fork |-> r.fork,
     SourceName |-> IF r.parent.present THEN r.parent.full_name ELSE ""]

\* bbRepository has no license and no archived field
convertBitbucketRepo(bb) ==
    [FullName |-> bb.full_name,
     Owner |-> IF bb.has_owner THEN bb.owner ELSE "",
     Name |-> bb.name,
     Archived |-> FALSE,
     License |-> "",
     Fork |-> bb.parent.present,
     SourceName |-> IF bb.parent.present THEN bb.parent.full_name ELSE ""]

gitHubFetchRepository(srv) ==
    IF Cancelled(srv.ctx, <<>>) THEN RepoResult(NilRepo, ErrCanceled, NoInfo, <<>>)
    ELSE LET seen == <<RepoRequest("repo", srv.repo.status)>>
         IN  IF ~SDKSuccess(srv.repo.status)
             THEN RepoResult(NilRepo, SDKFetchError(srv.repo.status), NoInfo, seen)
             ELSE RepoResult(convertGitHubRepo(srv.repo.payload), ErrNil, NoInfo, seen)

\* the GitLab SDK call is made without the caller's context
gitLabFetchRepository(srv) ==
    LET seen == <<RepoRequest("repo", srv.repo.status)>>
    IN  IF ~SDKSuccess(srv.repo.status)
        THEN RepoResult(NilRepo, SDKFetchError(srv.repo.status), NoInfo, seen)
        ELSE RepoResult(convertGitLabProject(srv.repo.payload), ErrNil, NoInfo, seen)

\* the Gitea SDK calls are made without the caller's context; the topics are
\* fetched with a second request whose failure is ignored
giteaFetchRepository(srv) ==
    LET seen == <<RepoRequest("repo", srv.repo.status)>>
        topics == RepoRequest("topics", srv.topics)
    IN  IF ~SDKSuccess(srv.repo.status)
        THEN RepoResult(NilRepo, SDKFetchError(srv.repo.status), NoInfo, seen)
        ELSE RepoResult(convertGiteaRepo(srv.repo.payload)
                            @@ [Topics |-> IF SDKSuccess(srv.topics) THEN <<"topic">> ELSE <<>>],
                        ErrNil, NoInfo, Append(seen, topics))

\* mutant: every status other than 200 is an HTTPError, the 404 included
bitbucketFetchRepository_NoSentinel(srv) ==
    IF Cancelled(srv.ctx, <<>>) THEN RepoResult(NilRepo, ErrCanceled, NoInfo, <<>>)
    ELSE LET seen == <<RepoRequest("repo", srv.repo.status)>>
         IN  CASE srv.repo.status = "neterr" -> RepoResult(NilRepo, ErrTransport, NoInfo, seen)
               [] srv.repo.status = "200-undecodable" -> RepoResult(NilRepo, ErrDecode, NoInfo, seen)
               [] srv.repo.status # "200" ->
                    RepoResult(NilRepo, ErrHTTP,
                               HTTPError(srv.repo.status, <<"repo">>, srv.repo.body), seen)
               [] OTHER -> RepoResult(convertBitbucketRepo(srv.repo.payload), ErrNil, NoInfo, seen)

\* mutant: the HTTPError is built without the response body
bitbucketFetchRepository_NoBody(srv) ==
    IF Cancelled(srv.ctx, <<>>) THEN RepoResult(NilRepo, ErrCanceled, NoInfo, <<>>)
    ELSE LET seen == <<RepoRequest("repo", srv.repo.status)>>
         IN  CASE srv.repo.status = "neterr" -> RepoResult(NilRepo, ErrTransport, NoInfo, seen)
               [] srv.repo.status = "404" -> RepoResult(NilRepo, ErrNotFound, NoInfo, seen)
               [] srv.repo.status = "200-undecodable" -> RepoResult(NilRepo, ErrDecode, NoInfo, seen)
               [] srv.repo.status # "200" ->
                    RepoResult(NilRepo, ErrHTTP, HTTPError(srv.repo.status, <<"repo">>, ""), seen)
               [] OTHER -> RepoResult(convertBitbucketRepo(srv.repo.payload), ErrNil, NoInfo, seen)

\* getJSON on the repository URL, then the conversion
bitbucketFetchRepository(srv) ==
    IF Cancelled(srv.ctx, <<>>) THEN RepoResult(NilRepo, ErrCanceled, NoInfo, <<>>)
    ELSE LET seen == <<RepoRequest("repo", srv.repo.status)>>
         IN  CASE srv.repo.status = "neterr" -> RepoResult(NilRepo, ErrTransport, NoInfo, seen)
               [] srv.repo.status = "404" -> RepoResult(NilRepo, ErrNotFound, NoInfo, seen)
               [] srv.repo.status = "200-undecodable" -> RepoResult(NilRepo, ErrDecode, NoInfo, seen)
               [] srv.repo.status # "200" ->
                    RepoResult(NilRepo, ErrHTTP,
                               HTTPError(srv.repo.status, <<"repo">>, srv.repo.body), seen)
               [] OTHER -> RepoResult(convertBitbucketRepo(srv.repo.payload), ErrNil, NoInfo, seen)

\* ---- the providers and calls of the adapter specification ----

MaxTags == 3
MaxCancel == 2

TagList(n) == [i \in 1..n |-> TagPayload(i)]

TagFailKinds == {"404", "500", "neterr", "200-undecodable"}

\* listings of a few tags served in small pages, and listings around the
\* Gitea page size served in pages of that size
TagListings ==
    {[items |-> TagList(n), serverMax |-> m] : n \in 0..MaxTags, m \in 1..MaxServerPage}
    \cup {[items |-> TagList(n), serverMax |-> GiteaTagsPageSize] :
            n \in {GiteaTagsPageSize - 1, GiteaTagsPageSize, GiteaTagsPageSize + 1,
                   2 * GiteaTagsPageSize}}

TagEndpoints ==
    {[items |-> l.items, serverMax |-> l.serverMax, failAt |-> 0, failKind |-> "404"] :
        l \in TagListings}
    \cup {[items |-> l.items, serverMax |-> l.serverMax, failAt |-> f, failKind |-> k] :
        l \in TagListings, f \in 1..MaxFailPage, k \in TagFailKinds}

RepoStatuses == {"200", "204", "404", "403", "500", "neterr", "200-undecodable"}

RepoAnswers ==
    {[status |-> s, body |-> "body", payload |-> Payload("o", "r", FALSE, TRUE, Ref("up/r"))] :
        s \in RepoStatuses}

Contexts == {NeverCancelled} \cup 0..MaxCancel

Adapters == {GitHub, GitLab, Gitea, Bitbucket}

Licenses == {NoLicense, License("MIT"), License(NoAssertion), License("")}

Parents == {NoRef, Ref("up/r")}

\* the payloads a provider of the kind answers a repository request with: the
\* repository r of o; on GitLab also r of the subgroup o of the group g, whose
\* namespace.path is o, and a project without its namespace; on Bitbucket also
\* a repository without its owner
RepoPayloads(kind) ==
    LET Names ==
            CASE kind = GitLab -> {<<"o/r", TRUE>>, <<"g/o/r", TRUE>>, <<"o/r", FALSE>>}
              [] kind = Bitbucket -> {<<"o/r", TRUE>>, <<"o/r", FALSE>>}
              [] OTHER -> {<<"o/r", TRUE>>}
    IN  {ProviderPayload(n[1], n[2], IF n[2] THEN "o" ELSE "", "r", FALSE, f, parent, l) :
            n \in Names, f \in BOOLEAN, parent \in Parents, l \in Licenses}

NoTags == [items |-> <<>>, serverMax |-> 1, failAt |-> 0, failKind |-> "404"]

\* a provider of each kind: its tags and its answer to the repository request
FetchServers ==
    {[kind |-> k, tags |-> t, repo |-> r, topics |-> "200", ctx |-> c] :
        k \in Adapters, t \in TagEndpoints,
        r \in {a \in RepoAnswers : a.status = "200"}, c \in Contexts}
    \cup {[kind |-> k, tags |-> NoTags, repo |-> r, topics |-> tp, ctx |-> c] :
        k \in Adapters, r \in RepoAnswers, tp \in {"200", "404", "500"}, c \in Contexts}
    \cup UNION {{[kind |-> k, tags |-> NoTags,
                   repo |-> [status |-> "200", body |-> "body", payload |-> pl],
                   topics |-> "200", ctx |-> NeverCancelled] :
                    pl \in RepoPayloads(k)} : k \in Adapters}

FetchInit ==
    /\ conc = Idle
    /\ tsrv \in FetchServers
    /\ tout = Idle
    /\ world = Idle /\ det = Idle
    /\ lsrv = Idle /\ lopts = Idle /\ lout = Idle
    /\ client = Idle /\ copts = Idle /\ cout = Idle /\ detectRuns = Idle /\ regCalls = Idle
    /\ pin = Idle /\ pout = Idle /\ fin = Idle /\ fres = Idle

\* the domain a default Client has the adapter registered for
DomainOf(adapter) ==
    CASE adapter = GitHub -> StrGithubCom
      [] adapter = GitLab -> StrGitlabCom
      [] adapter = Gitea -> StrCodebergOrg
      [] OTHER -> StrBitbucketOrg

\* the repository URL a caller passes to reach the adapter
RepoURLOf(adapter) == StrHttps \o DomainOf(adapter) \o <<"/", "o", "/", "r">>

\* what the caller of the Client's method gets, out being the Client method's
\* outcome when the adapter it routed to returned the adapter's result
ViaClient(out) ==
    [ret |-> out.ret, err |-> out.err, routedTo |-> out.calls[1].adapter.kind]

Called(op, adapter, res, via) ==
    [op |-> op, adapter |-> adapter, client |-> via] @@ res

\* the adapter of each kind, as the Forge interface dispatches to it
adapterFetchTags(adapter, srv) ==
    CASE adapter = GitHub -> gitHubFetchTags(srv)
      [] adapter = GitLab -> gitLabFetchTags(srv)
      [] adapter = Gitea -> giteaFetchTags(srv)
      [] OTHER -> bitbucketFetchTags(srv)

adapterFetchRepository(adapter, srv) ==
    CASE adapter = GitHub -> gitHubFetchRepository(srv)
      [] adapter = GitLab -> gitLabFetchRepository(srv)
      [] adapter = Gitea -> giteaFetchRepository(srv)
      [] OTHER -> bitbucketFetchRepository(srv)

\* Client.FetchTags on a repository of the provider's default domain: the Client
\* parses the URL, routes to the adapter and returns what the adapter returns
adapterFetchTagsStep ==
    /\ tout = Idle
    /\ \E adapter \in {tsrv.kind} :
        \E res \in {adapterFetchTags(adapter, tsrv)} :
        \E via \in {ViaClient(FetchTags(NewClient(<<>>), RepoURLOf(adapter),
                                         [value |-> res.tags, err |-> res.err]))} :
            tout' = Called("FetchTags", adapter, res, via)
    /\ UNCHANGED <<tsrv, detVars, listVars, clientVars, parseVars, filterVars, concVars>>

\* Client.FetchRepository on a repository of the adapter's default domain
adapterFetchRepositoryStep ==
    /\ tout = Idle
    /\ \E adapter \in {tsrv.kind} :
        \E res \in {adapterFetchRepository(adapter, tsrv)} :
        \E via \in {ViaClient(FetchRepository(NewClient(<<>>), RepoURLOf(adapter),
                                               [value |-> res.repo, err |-> res.err]))} :
            tout' = Called("FetchRepository", adapter, res, via)
    /\ UNCHANGED <<tsrv, detVars, listVars, clientVars, parseVars, filterVars, concVars>>

FetchNext == adapterFetchTagsStep \/ adapterFetchRepositoryStep

SpecFetch == FetchInit /\ [][FetchNext]_vars

(***************************************************************************)
(* FilterRepos on a batch of repositories.                                 *)
(***************************************************************************)

MaxBatch == 3

\* the four kinds of repository: active, archived, fork, archived fork
RepoKinds == {convertGiteaRepo(OrgPayloads[i]) : i \in 1..Len(OrgPayloads)}

ExampleBatch == [i \in 1..Len(OrgPayloads) |-> convertGiteaRepo(OrgPayloads[i])]

Batches == UNION {[1..n -> RepoKinds] : n \in 0..MaxBatch} \cup {ExampleBatch}

FilterOptions ==
    {[Archived |-> a, Forks |-> f, PerPage |-> 0] :
        a \in {ArchivedInclude, ArchivedExclude, ArchivedOnly},
        f \in {ForkInclude, ForkExclude, ForkOnly}}

FilterInit ==
    /\ conc = Idle
    /\ fin \in [repos : Batches, opts : FilterOptions]
    /\ fres = Idle
    /\ world = Idle /\ det = Idle
    /\ lsrv = Idle /\ lopts = Idle /\ lout = Idle
    /\ client = Idle /\ copts = Idle /\ cout = Idle /\ detectRuns = Idle /\ regCalls = Idle
    /\ tsrv = Idle /\ tout = Idle /\ pin = Idle /\ pout = Idle

FilterReposStep ==
    /\ fres = Idle
    /\ fres' = [op |-> "FilterRepos", out |-> FilterRepos(fin.repos, fin.opts)]
    /\ UNCHANGED <<fin, detVars, listVars, clientVars, fetchVars, parseVars, concVars>>

SpecFilter == FilterInit /\ [][FilterReposStep]_vars

(***************************************************************************)
(* ParseRepoURL on repository references of every form.                    *)
(***************************************************************************)

StrExtra == <<"/", "t", "r", "e", "e", "/", "m", "a", "i", "n">>

ParseUsers == {<<"g", "i", "t">>, <<"a", "l">>}

ParseHosts == {<<"h", ".", "i", "o">>, <<"a", "@", "b">>}

ParseOwners == {<<"o">>, <<"o", "-", "1">>, <<"2", "2">>, <<"o", "?", "x">>}

ParseRepos == {<<"r">>, <<"r", ".", "j", "s">>, <<"x", ".", "g", "i", "t">>, <<"a", "#", "b">>}

Forms == {"ssh.git", "ssh", "https.git", "https", "bare", "extra", "single", "nocolon",
          "double", "blank"}

\* the reference of the given form for user u, host h, owner o and repository r
Reference(form, u, h, o, r) ==
    CASE form = "ssh.git" -> u \o <<"@">> \o h \o <<":">> \o o \o <<"/">> \o r \o StrDotGit
      [] form = "ssh" -> u \o <<"@">> \o h \o <<":">> \o o \o <<"/">> \o r
      [] form = "https.git" -> StrHttps \o h \o <<"/">> \o o \o <<"/">> \o r \o StrDotGit
      [] form = "https" -> StrHttps \o h \o <<"/">> \o o \o <<"/">> \o r
      [] form = "bare" -> h \o <<"/">> \o o \o <<"/">> \o r
      [] form = "extra" -> StrHttps \o h \o <<"/">> \o o \o <<"/">> \o r \o StrExtra
      [] form = "single" -> StrHttps \o h \o <<"/">> \o o
      [] form = "nocolon" -> u \o <<"@">> \o h
      [] form = "double" -> StrHttps \o h \o <<"/">> \o o \o <<"/", "/">> \o r
      [] OTHER -> IF u = <<"g", "i", "t">> THEN <<>> ELSE <<" ", " ">>

ParseInputs ==
    {[form |-> f, user |-> u, host |-> h, owner |-> o, repo |-> r,
      url |-> Reference(f, u, h, o, r)] :
        f \in Forms, u \in ParseUsers, h \in ParseHosts, o \in ParseOwners, r \in ParseRepos}

ParseInit ==
    /\ conc = Idle
    /\ pin \in ParseInputs
    /\ pout = Idle
    /\ world = Idle /\ det = Idle
    /\ lsrv = Idle /\ lopts = Idle /\ lout = Idle
    /\ client = Idle /\ copts = Idle /\ cout = Idle /\ detectRuns = Idle /\ regCalls = Idle
    /\ tsrv = Idle /\ tout = Idle /\ fin = Idle /\ fres = Idle

ParseRepoURLStep ==
    /\ pout = Idle
    /\ pout' = [op |-> "ParseRepoURL"] @@ ParseRepoURL(pin.url)
    /\ UNCHANGED <<pin, detVars, listVars, clientVars, fetchVars, filterVars, concVars>>

SpecParse == ParseInit /\ [][ParseRepoURLStep]_vars

(***************************************************************************)
(* Concurrent callers of one Client (RegisterDomain, FetchRepository and   *)
(* FetchTags from several goroutines).                                     *)
(***************************************************************************)

MaxGoroutines == 2
MaxCalls == 2

Goroutines == 1..MaxGoroutines

ClientOps == {"RegisterDomain", "FetchRepository", "FetchTags"}

\* the accesses to the maps of the Client: c.tokens[domain] = token and
\* c.forges[domain] = ... of RegisterDomain, c.forges[domain] of forgeFor
MapAccess(pc) ==
    CASE pc = "writeTokens" -> [map |-> "tokens", write |-> TRUE]
      [] pc = "writeForges" -> [map |-> "forges", write |-> TRUE]
      [] pc = "readForges" -> [map |-> "forges", write |-> FALSE]
      [] OTHER -> [map |-> "none", write |-> FALSE]

\* the first statement of a method
FirstPC(op) == IF op = "RegisterDomain" THEN "detect" ELSE "parse"

\* mutant: a fetch that finds no adapter for the domain registers one
NextPC_FetchRegisters(op, pc, ok, registered) ==
    IF op = "RegisterDomain"
    THEN CASE pc = "detect" -> IF ok THEN "writeTokens" ELSE "idle"
           [] pc = "writeTokens" -> "writeForges"
           [] OTHER -> "idle"
    ELSE CASE pc = "parse" -> IF ok THEN "readForges" ELSE "idle"
           [] pc = "readForges" -> IF registered THEN "call" ELSE "writeForges"
           [] pc = "writeForges" -> "call"
           [] OTHER -> "idle"

\* the statement that follows pc in the method: RegisterDomain detects, returns
\* on the detector's error, then writes the token map and the adapter map;
\* FetchRepository and FetchTags parse the URL, return on its error, read the
\* adapter map in forgeFor, return when the domain has no adapter, and call the
\* adapter. ok is the outcome of the detection or of the parse.
NextPC(op, pc, ok, registered) ==
    IF op = "RegisterDomain"
    THEN CASE pc = "detect" -> IF ok THEN "writeTokens" ELSE "idle"
           [] pc = "writeTokens" -> "writeForges"
           [] OTHER -> "idle"
    ELSE CASE pc = "parse" -> IF ok THEN "readForges" ELSE "idle"
           [] pc = "readForges" -> IF registered THEN "call" ELSE "idle"
           [] OTHER -> "idle"

\* goroutine g is in the middle of an access to a map
Accessing(g) == MapAccess(conc.pc[g]).map # "none"

\* two goroutines are in accesses to the same map, one of them a write
Overlap ==
    \E g, h \in Goroutines :
        /\ g # h
        /\ Accessing(g) /\ Accessing(h)
        /\ MapAccess(conc.pc[g]).map = MapAccess(conc.pc[h]).map
        /\ MapAccess(conc.pc[g]).write

\* the goroutines share a Client whose domain ex.io is not registered yet;
\* serial says that the callers run their calls under a lock of their own
ConcInit ==
    /\ conc \in {[serial |-> s, lock |-> 0, fatal |-> FALSE,
                  op |-> [g \in Goroutines |-> "none"],
                  pc |-> [g \in Goroutines |-> "idle"],
                  calls |-> [g \in Goroutines |-> 0],
                  tokens |-> FALSE, forges |-> FALSE] : s \in BOOLEAN}
    /\ world = Idle /\ det = Idle
    /\ lsrv = Idle /\ lopts = Idle /\ lout = Idle
    /\ client = Idle /\ copts = Idle /\ cout = Idle /\ detectRuns = Idle /\ regCalls = Idle
    /\ tsrv = Idle /\ tout = Idle /\ pin = Idle /\ pout = Idle /\ fin = Idle /\ fres = Idle

\* a goroutine calls a method of the Client for the domain ex.io
StartCallStep ==
    \E g \in Goroutines, op \in ClientOps :
        /\ ~conc.fatal
        /\ conc.pc[g] = "idle"
        /\ conc.calls[g] < MaxCalls
        /\ conc.serial => conc.lock = 0
        /\ conc' = [conc EXCEPT !.op[g] = op, !.pc[g] = FirstPC(op),
                                !.lock = IF conc.serial THEN g ELSE 0]
        /\ UNCHANGED <<detVars, listVars, clientVars, fetchVars, parseVars, filterVars>>

\* the goroutine finishes the statement it is at and goes to the next one
StatementStep ==
    \E g \in Goroutines, ok \in BOOLEAN :
        /\ ~conc.fatal
        /\ conc.pc[g] # "idle"
        /\ \E next \in {NextPC(conc.op[g], conc.pc[g], ok, conc.forges)} :
            conc' = [conc EXCEPT
                        !.pc[g] = next,
                        !.tokens = @ \/ conc.pc[g] = "writeTokens",
                        !.forges = @ \/ conc.pc[g] = "writeForges",
                        !.calls[g] = IF next = "idle" THEN @ + 1 ELSE @,
                        !.lock = IF next = "idle" THEN 0 ELSE @]
        /\ UNCHANGED <<detVars, listVars, clientVars, fetchVars, parseVars, filterVars>>

\* a map written while another goroutine reads or writes it is a data race:
\* the runtime may stop the program with "concurrent map writes", or go on
FatalStep ==
    /\ ~conc.fatal
    /\ Overlap
    /\ conc' = [conc EXCEPT !.fatal = TRUE]
    /\ UNCHANGED <<detVars, listVars, clientVars, fetchVars, parseVars, filterVars>>

ConcNext == StartCallStep \/ StatementStep \/ FatalStep

SpecConc == ConcInit /\ [][ConcNext]_vars

(***************************************************************************)
(* Detector claims.                                                        *)
(***************************************************************************)

HeaderOrder == <<"X-Forgejo-Version", "X-Gitea-Version", "X-Gitlab-Meta", "X-GitHub-Request-Id">>

HeaderForge == <<Forgejo, Gitea, GitLab, GitHub>>

\* the forge of the first header of HeaderOrder that is in S, Unknown when none is
FirstOf(S) ==
    IF \A i \in 1..4 : HeaderOrder[i] \notin S THEN Unknown
    ELSE HeaderForge[CHOOSE i \in 1..4 :
             /\ HeaderOrder[i] \in S
             /\ \A j \in 1..(i - 1) : HeaderOrder[j] \notin S]

PresentHeaders(w) == DOMAIN w.root.header

NonEmptyHeaders(w) == {n \in DOMAIN w.root.header : w.root.header[n] # ""}

HeaderProbeDone == det.op = "detectFromHeaders" /\ ~world.root.err

\* C5 as stated: the header probe classifies by the first identifying header
\* present on the response, in the order Forgejo, Gitea, GitLab, GitHub, and
\* yields Unknown without an error when none is present.
C5_FirstPresentHeaderWins ==
    HeaderProbeDone => det.err = ErrNil /\ det.ft = FirstOf(PresentHeaders(world))

\* C5 amended: the header probe classifies by the first identifying header that
\* carries a non-empty value, in the order Forgejo, Gitea, GitLab, GitHub (a header
\* present with an empty value counts as absent), and yields Unknown without an
\* error when no header carries a value.
C5_FirstNonEmptyHeaderWins ==
    HeaderProbeDone => det.err = ErrNil /\ det.ft = FirstOf(NonEmptyHeaders(world))

C5_Witness ==
    /\ HeaderProbeDone
    /\ {"X-Forgejo-Version", "X-Gitea-Version"} \subseteq NonEmptyHeaders(world)
    /\ det.ft = Forgejo

\* the header probe did not classify: it failed, or no header carries a value
HeaderProbeSilent(w) == w.root.err \/ NonEmptyHeaders(w) = {}

APIProbingDone ==
    \/ det.op = "detectFromAPI"
    \/ det.op = "DetectForgeType" /\ HeaderProbeSilent(world)

Is200(ans) == ~ans.err /\ ans.status = 200

Is404(ans) == ~ans.err /\ ans.status = 404

MentionsForgejo(v) ==
    \E i \in 1..Len(v) : \E j \in i..Len(v) : ToLower(SubSeq(v, i, j)) = StrForgejo

GiteaKind(w) == IF MentionsForgejo(w.v1.body.version) THEN Forgejo ELSE Gitea

NoProbe200(w) == ~Is200(w.v1) /\ ~Is200(w.v4) /\ ~Is200(w.v3)

\* C6 as stated: after a silent header probe, a 200 at /api/v1/version gives
\* Forgejo or Gitea by the version string, a 404 there and a 200 at
\* /api/v4/version gives GitLab, a 404 at both and a 200 at /api/v3/meta gives
\* GitHub, and no 200 at all gives the could-not-detect error.
C6_APIProbeOrder ==
    APIProbingDone =>
        /\ Is200(world.v1) => det.err = ErrNil /\ det.ft = GiteaKind(world)
        /\ Is404(world.v1) /\ Is200(world.v4) => det.err = ErrNil /\ det.ft = GitLab
        /\ Is404(world.v1) /\ Is404(world.v4) /\ Is200(world.v3) =>
               det.err = ErrNil /\ det.ft = GitHub
        /\ NoProbe200(world) => det.err = ErrCouldNotDetect

\* C6 amended: the same, with the first case limited to a 200 at /api/v1/version
\* whose body decodes as JSON and carries a version field (a 200 whose body does
\* not decode is no match, and probing goes on with /api/v4/version).
C6_APIProbeOrderDecodable ==
    APIProbingDone =>
        /\ Is200(world.v1) /\ world.v1.body.decodes /\ world.v1.body.hasVersion =>
               det.err = ErrNil /\ det.ft = GiteaKind(world)
        /\ Is200(world.v1) /\ ~world.v1.body.decodes /\ Is200(world.v4) =>
               det.err = ErrNil /\ det.ft = GitLab
        /\ Is404(world.v1) /\ Is200(world.v4) => det.err = ErrNil /\ det.ft = GitLab
        /\ Is404(world.v1) /\ Is404(world.v4) /\ Is200(world.v3) =>
               det.err = ErrNil /\ det.ft = GitHub
        /\ NoProbe200(world) => det.err = ErrCouldNotDetect

C6_Witness ==
    /\ det.op = "DetectForgeType"
    /\ HeaderProbeSilent(world)
    /\ Is404(world.v1) /\ Is404(world.v4) /\ Is200(world.v3)
    /\ det.ft = GitHub
    /\ det.probes = <<"/", "/api/v1/version", "/api/v4/version", "/api/v3/meta">>

\* C7: DetectForgeType never ends with the header probe's transport failure:
\* after a failed or silent header probe it probes the API and returns exactly
\* what API probing returns.
C7_HeaderFailureFallsThrough ==
    det.op = "DetectForgeType" =>
        /\ det.err # ErrTransport
        /\ HeaderProbeSilent(world) =>
               /\ Len(det.probes) >= 2
               /\ det.probes[1] = "/"
               /\ det.probes[2] = "/api/v1/version"
               /\ det.ft = detectFromAPI(world).ft
               /\ det.err = detectFromAPI(world).err

C7_Witness ==
    /\ det.op = "DetectForgeType"
    /\ world.root.err
    /\ Is200(world.v4)
    /\ det.ft = GitLab
    /\ det.err = ErrNil

(***************************************************************************)
(* Listing claims.                                                         *)
(***************************************************************************)

Listed == lout.op = "ListRepositories"

OrgReqs == SelectSeq(lout.reqs, LAMBDA q : q.ep = "org")

UserReqs == SelectSeq(lout.reqs, LAMBDA q : q.ep = "user")

\* the status the organization/group (user) listing ended with
OrgEnd == IF OrgReqs = <<>> THEN "none" ELSE OrgReqs[Len(OrgReqs)].status

UserEnd == IF UserReqs = <<>> THEN "none" ELSE UserReqs[Len(UserReqs)].status

RECURSIVE ItemsOf(_)
ItemsOf(reqs) == IF reqs = <<>> THEN <<>> ELSE Head(reqs).items \o ItemsOf(Tail(reqs))

Converted(items) ==
    IF lout.adapter = GitLab THEN convertGitLabProjects(items)
    ELSE convertGiteaRepos(items)

\* every organization/group request comes before every user request
OrgBeforeUser ==
    \A i, j \in 1..Len(lout.reqs) :
        lout.reqs[i].ep = "user" /\ lout.reqs[j].ep = "org" => j < i

\* C8: when the organization/group listing answers 404 and the user listing
\* succeeds, ListRepositories (GitLab, Gitea) returns the filtered repositories
\* the user endpoint answered with and a nil error, having queried the
\* organization/group endpoint first.
C8_FallbackToUser ==
    Listed /\ OrgEnd = "404" /\ lsrv.user.failAt = 0 =>
        /\ lout.err = ErrNil
        /\ UserReqs # <<>>
        /\ lout.reqs[1].ep = "org"
        /\ OrgBeforeUser
        /\ lout.repos = FilterRepos(Converted(ItemsOf(UserReqs)), lopts)

C8_Witness ==
    /\ Listed /\ OrgEnd = "404" /\ lsrv.user.failAt = 0
    /\ Len(UserReqs) >= 2
    /\ Len(lout.repos) >= 1
    /\ Len(lout.repos) < Len(ItemsOf(UserReqs))
    /\ lout.err = ErrNil

\* C9: ListRepositories falls back to the user listing only after a not-found:
\* any other failure of the organization/group listing (transport error, other
\* status, on any page) is returned at once and the user endpoint is not queried.
C9_FallbackOnlyOnNotFound ==
    Listed /\ OrgEnd \in {"500", "neterr"} =>
        /\ lout.err = ListError(OrgEnd)
        /\ UserReqs = <<>>

\* C10: when both the organization/group listing and the user listing answer
\* not-found, ListRepositories returns the owner-not-found sentinel, not the
\* repository-not-found sentinel, and no repositories.
C10_OwnerNotFound ==
    Listed /\ OrgEnd = "404" /\ UserEnd = "404" =>
        /\ lout.err = ErrOwnerNotFound
        /\ lout.err # ErrNotFound
        /\ lout.repos = <<>>

C10_Witness ==
    /\ Listed /\ OrgEnd = "404" /\ UserEnd = "404"
    /\ lout.adapter = Gitea
    /\ lout.err = ErrOwnerNotFound
    /\ lout.repos = <<>>


(***************************************************************************)
(* Client claims.                                                          *)
(***************************************************************************)

Fetched == cout.op \in {"FetchRepository", "FetchTags"}

Parsed == ParseRepoURL(cout.arg)

\* C1: when the URL of a FetchRepository or FetchTags call parses to (d, o, r)
\* and the registry maps d to an adapter, the call makes exactly one adapter
\* call, to that adapter, with the method's name and the arguments (o, r), and
\* returns the adapter's value and error unchanged.
C1_RoutesToRegisteredAdapter ==
    (Fetched /\ Parsed.err = ErrNil /\ Parsed.domain \in DOMAIN cout.before.forges)
        => /\ cout.calls = <<Call(cout.before.forges[Parsed.domain], cout.op,
                                  Parsed.owner, Parsed.repo)>>
           /\ cout.ret = cout.ans.value
           /\ cout.err = cout.ans.err

\* FetchTags on an SSH reference of a self-hosted domain reached its Gitea
\* adapter with owner "o" and repository "r" and returned its tags.
C1_Witness ==
    /\ cout.op = "FetchTags"
    /\ cout.err = ErrNil
    /\ cout.ret = "v1"
    /\ Len(cout.calls) = 1
    /\ cout.calls[1].adapter.kind = Gitea
    /\ cout.calls[1].adapter.base = StrHttps \o StrExIo
    /\ cout.calls[1].owner = <<"o">>
    /\ cout.calls[1].repo = <<"r">>

\* C2: at any point of any sequence of Client operations, FetchRepository or
\* FetchTags on a URL whose parsed domain has no registry entry fails with the
\* "no forge registered for domain" error, runs no detection, calls no adapter,
\* and leaves the adapter map and the token map as they were.
C2_UnregisteredDomainFails ==
    (Fetched /\ Parsed.err = ErrNil /\ Parsed.domain \notin DOMAIN cout.before.forges)
        => /\ cout.err = ErrNoForge
           /\ cout.ret = "nil"
           /\ cout.calls = <<>>
           /\ cout.detects = <<>>
           /\ client.forges = cout.before.forges
           /\ client.tokens = cout.before.tokens

\* A fetch for a domain whose registration had failed before: the domain is
\* still unregistered and the fetch ends in the routing error.
C2_Witness ==
    /\ cout.op = "FetchRepository"
    /\ cout.err = ErrNoForge
    /\ Parsed.domain = StrExIo
    /\ regCalls[StrExIo] = 1
    /\ detectRuns[StrExIo] = 1
    /\ StrExIo \notin DOMAIN client.forges

IsExplicit(o) == o.type \in {"WithGitea", "WithGitLab"}

\* positions of the options that register domain d
ExplicitAt(opts, d) == {i \in 1..Len(opts) : IsExplicit(opts[i]) /\ opts[i].domain = d}

Last(S) == CHOOSE i \in S : \A j \in S : j <= i

\* the HTTP client in force when option i is applied
HTTPClientAt(opts, i) ==
    LET before == {j \in 1..(i - 1) : opts[j].type = "WithHTTPClient"}
    IN  IF before = {} THEN NilHC ELSE opts[Last(before)].hc

\* the adapter the option at position i creates
AdapterOfOption(opts, i) ==
    [kind |-> IF opts[i].type = "WithGitea" THEN Gitea ELSE GitLab,
     base |-> IF opts[i].type = "WithGitea" THEN StrHttps \o opts[i].domain
              ELSE StrHttps \o opts[i].domain \o StrApiV4,
     token |-> opts[i].token,
     hc |-> HTTPClientAt(opts, i),
     auth |-> opts[i].token # ""]

\* C3: after NewClient with any list of options the registry contains
\* github.com, gitlab.com, codeberg.org and bitbucket.org, and every domain an
\* option (WithGitea, WithGitLab) registered, a default domain included, is
\* bound to the adapter the (last such) option created for it: the default
\* registration overwrites no explicit registration.
C3_DefaultsKeepExplicit ==
    client # Idle
        => /\ DefaultDomains \subseteq DOMAIN client.forges
           /\ \A d \in OptionDomains :
                ExplicitAt(copts, d) # {}
                    => /\ d \in DOMAIN client.forges
                       /\ client.forges[d] = AdapterOfOption(copts, Last(ExplicitAt(copts, d)))

\* NewClient(WithHTTPClient(hc1), WithGitea("gitlab.com", "tok")): the default
\* GitLab domain is bound to the Gitea adapter of the option.
C3_Witness ==
    /\ client # Idle
    /\ Len(copts) = 2
    /\ copts[1].type = "WithHTTPClient"
    /\ copts[2] = WithGitea(StrGitlabCom, "tok")
    /\ client.forges[StrGitlabCom].kind = Gitea
    /\ client.forges[StrGitlabCom].hc = "hc1"
    /\ client.forges[StrGithubCom].kind = GitHub

TagsFetched == tout.op = "FetchTags"

\* the page size the adapter asks for, and the size the provider serves
AskedPageSize ==
    CASE tout.adapter = Gitea -> GiteaTagsPageSize
      [] tout.adapter = Bitbucket -> BitbucketPageLen
      [] tout.adapter = GitLab -> GitLabTagsPerPage
      [] OTHER -> GitHubTagsPerPage

ServedPageSize == Min(AskedPageSize, tsrv.tags.serverMax)

TagCount == Len(tsrv.tags.items)

\* the tags on page p of the provider
CountOnPage(p) ==
    IF p * ServedPageSize <= TagCount THEN ServedPageSize
    ELSE IF (p - 1) * ServedPageSize >= TagCount THEN 0
    ELSE TagCount - (p - 1) * ServedPageSize

\* page p carries the provider's signal of the last page: for Gitea a page
\* shorter than the page size asked for, for the others no next page
SignalsLast(p) ==
    IF tout.adapter = Gitea THEN CountOnPage(p) < AskedPageSize
    ELSE p * ServedPageSize >= TagCount

LastPage == CHOOSE p \in 1..(TagCount + 1) : SignalsLast(p) /\ \A q \in 1..(p - 1) : ~SignalsLast(q)

RequestedPages == [i \in 1..Len(tout.reqs) |-> tout.reqs[i].page]

FailedRequests == {i \in 1..Len(tout.reqs) : tout.reqs[i].status # "200"}

\* C12: when a page request of FetchTags fails, on whatever page, FetchTags
\* returns an error and no tags: the tags of the pages fetched before the
\* failure are not returned with the error.
C12_NoPartialTags ==
    TagsFetched
        => /\ FailedRequests # {} => tout.err # ErrNil
           /\ tout.err # ErrNil => tout.tags = <<>>

\* The GitLab adapter got tags on page one and a 500 on page two.
C12_Witness ==
    /\ TagsFetched
    /\ tout.adapter = GitLab
    /\ Len(tout.reqs) = 2
    /\ tout.reqs[1].items # <<>>
    /\ tout.reqs[2].status = "500"
    /\ tout.err = ErrAPI
    /\ tout.tags = <<>>

(***************************************************************************)
(* Filter claims.                                                          *)
(***************************************************************************)

Filtered == fres # Idle

\* a three-way policy on a flag: 0 lets everything pass, 1 only the
\* repositories without the flag, 2 only those with it
PolicyAllows(policy, flag) ==
    \/ policy = 0
    \/ policy = 1 /\ ~flag
    \/ policy = 2 /\ flag

\* the positions of the batch that pass both policies
Survivors ==
    {i \in 1..Len(fin.repos) :
        /\ PolicyAllows(fin.opts.Archived, fin.repos[i].Archived)
        /\ PolicyAllows(fin.opts.Forks, fin.repos[i].Fork)}

\* the n-th smallest position among the survivors
NthSurvivor(n) == CHOOSE i \in Survivors : Cardinality({j \in Survivors : j <= i}) = n

\* C13: for every batch and each of the nine policy combinations FilterRepos
\* returns exactly the repositories that pass both the archived and the fork
\* policy, in input order, nothing added or duplicated; Exclude/Exclude on
\* {active, archived, fork, archived-fork} gives {active}.
C13_FilterIsSubsequence ==
    Filtered
        => /\ Len(fres.out) = Cardinality(Survivors)
           /\ \A n \in 1..Len(fres.out) : fres.out[n] = fin.repos[NthSurvivor(n)]
           /\ (fin.repos = ExampleBatch /\ fin.opts.Archived = ArchivedExclude
                   /\ fin.opts.Forks = ForkExclude)
                => fres.out = <<ExampleBatch[1]>>

\* Exclude/Exclude on the four-kind batch left the active repository alone.
C13_Witness ==
    /\ Filtered
    /\ fin.repos = ExampleBatch
    /\ fin.opts.Archived = ArchivedExclude
    /\ fin.opts.Forks = ForkExclude
    /\ Len(fres.out) = 1
    /\ fres.out[1].Name = "active"

(***************************************************************************)
(* URL parser claims.                                                      *)
(***************************************************************************)

ParseDone == pout # Idle

StrGit == <<"g", "i", "t">>

\* the five forms of one reference: SSH with ".git", HTTPS with and without
\* ".git", schemeless, and HTTPS with extra path segments
EquivalentForm ==
    \/ pin.form = "ssh.git" /\ pin.user = StrGit
    \/ pin.form \in {"https.git", "https", "bare", "extra"}

ParsesToComponents ==
    /\ pout.err = ErrNil
    /\ pout.domain = pin.host
    /\ pout.owner = pin.owner
    /\ pout.repo = pin.repo

PlainChars == Letters \cup Digits \cup {"-", "_", "."}

Plain(s) == s # <<>> /\ \A i \in 1..Len(s) : s[i] \in PlainChars

PlainComponents ==
    /\ Plain(pin.host) /\ Plain(pin.owner) /\ Plain(pin.repo)
    /\ ~HasSuffix(pin.repo, StrDotGit)

\* C14 as stated: for every host, owner and repository name (non-empty,
\* without "/", ":" and whitespace) the five forms of the reference parse to
\* the same triple (host, owner, name).
C14_FormsAgree ==
    (ParseDone /\ EquivalentForm) => ParsesToComponents

\* C14 for names that are plain in a URL: when host, owner and name consist of
\* letters, digits, "-", "_" and "." and the name does not end in ".git", the
\* five forms of the reference parse to the same triple (host, owner, name).
C14_FormsAgreeOnPlainNames ==
    (ParseDone /\ EquivalentForm /\ PlainComponents) => ParsesToComponents

\* https://h.io/o-1/r.js/tree/main parsed to (h.io, o-1, r.js).
C14_Witness ==
    /\ ParseDone
    /\ pin.form = "extra"
    /\ PlainComponents
    /\ pin.owner = <<"o", "-", "1">>
    /\ pout.err = ErrNil
    /\ pout.domain = <<"h", ".", "i", "o">>
    /\ pout.repo = <<"r", ".", "j", "s">>

\* C15: whenever ParseRepoURL succeeds the owner and the repository it
\* returns are both non-empty (a path with fewer than two non-empty segments
\* fails).
C15_OwnerAndRepoNonEmpty ==
    (ParseDone /\ pout.err = ErrNil) => (pout.owner # <<>> /\ pout.repo # <<>>)

NoValues == pout.domain = <<>> /\ pout.owner = <<>> /\ pout.repo = <<>>

\* C16: ParseRepoURL returns an error and no domain, owner or repository for
\* the empty string, for a URL whose path has a single segment, and for an
\* SSH-form string without a colon after the host.
C16_MalformedReferencesFail ==
    ParseDone
        => /\ pin.url = <<>> => (pout.err = ErrEmptyURL /\ NoValues)
           /\ pin.form = "single" => (pout.err # ErrNil /\ NoValues)
           /\ (pin.form = "nocolon" /\ pin.user = StrGit)
                => (pout.err = ErrMissingColon /\ NoValues)

\* https://h.io/o failed for want of a repository segment.
C16_Witness ==
    /\ ParseDone
    /\ pin.form = "single"
    /\ pin.url = StrHttps \o <<"h", ".", "i", "o", "/", "o">>
    /\ pout.err = ErrNoOwnerRepo
    /\ NoValues

SSHForm == pin.form \in {"ssh", "ssh.git"}

\* C17 as stated: for every user name u the reference u@h:o/r, with or
\* without ".git", is taken for an SSH reference and parses to (h, o, r).
C17_AnyUserPrefixIsSSH ==
    (ParseDone /\ SSHForm /\ PlainComponents) => ParsesToComponents

\* C17 as the code has it: only the literal prefix "git@" marks an SSH
\* reference. git@h:o/r and git@h:o/r.git parse to (h, o, r), the host being
\* what stands between the prefix and the first colon after it (r as written
\* unless r itself ends in ".git" and no ".git" was appended); with any other
\* user name u@h:o/r is read as a URL and fails to parse.
C17_OnlyGitPrefixIsSSH ==
    (ParseDone /\ SSHForm)
        => /\ pin.user = StrGit
                => /\ pout.err = ErrNil
                   /\ pout.domain = pin.host
                   /\ pout.owner = pin.owner
                   /\ (pin.form = "ssh.git" \/ ~HasSuffix(pin.repo, StrDotGit))
                        => pout.repo = pin.repo
           /\ pin.user # StrGit => (pout.err # ErrNil /\ NoValues)

\* git@h.io:o/r parsed to (h.io, o, r).
C17_Witness ==
    /\ ParseDone
    /\ pin.form = "ssh"
    /\ pin.user = StrGit
    /\ pin.url = <<"g", "i", "t", "@", "h", ".", "i", "o", ":", "o", "/", "r">>
    /\ pout.err = ErrNil
    /\ pout.domain = <<"h", ".", "i", "o">>
    /\ pout.owner = <<"o">>
    /\ pout.repo = <<"r">>

AdapterCalled == tout # Idle

\* the requests for the repository and for tag pages the provider answered 404
NotFoundRequests ==
    {i \in 1..Len(tout.reqs) : tout.reqs[i].status = "404" /\ tout.reqs[i].ep \in {"repo", "tags"}}

NoResult == IF tout.op = "FetchTags" THEN tout.tags = <<>> ELSE tout.repo = NilRepo

\* C18: whenever the provider answers 404 to the repository request or to a
\* tag-page request, the adapter's FetchRepository/FetchTags returns the
\* ErrNotFound sentinel itself, not wrapped in another error, and the Client
\* hands it to its caller unchanged.
C18_NotFoundIsTheSentinel ==
    (AdapterCalled /\ NotFoundRequests # {})
        => /\ tout.err = ErrNotFound
           /\ tout.info = NoInfo
           /\ NoResult
           /\ tout.client.routedTo = tout.adapter
           /\ tout.client.err = ErrNotFound

\* The Bitbucket adapter got a 404 for the repository.
C18_Witness ==
    /\ AdapterCalled
    /\ tout.op = "FetchRepository"
    /\ tout.adapter = Bitbucket
    /\ tout.reqs = <<RepoRequest("repo", "404")>>
    /\ tout.err = ErrNotFound
    /\ tout.client.err = ErrNotFound

RepoFetched == tout # Idle /\ tout.op = "FetchRepository" /\ tout.reqs # <<>>

RepoStatus == tout.reqs[1].status

\* the response came with a non-success status other than the not-found
OtherFailureStatus == RepoStatus \in {"403", "500"}

SuccessStatus == RepoStatus \in {"200", "204", "200-undecodable"}

IsHTTPError ==
    /\ tout.err = ErrHTTP
    /\ tout.info = HTTPError(RepoStatus, <<"repo">>, tsrv.repo.body)

\* C19 as stated: for every adapter a FetchRepository whose response has a
\* non-success status other than the not-found fails with an HTTPError carrying
\* the status code, the request URL and the response body, and a response with
\* a success status is never reported as an HTTPError.
C19_EveryAdapterHTTPError ==
    RepoFetched
        => /\ OtherFailureStatus => IsHTTPError
           /\ SuccessStatus => tout.err # ErrHTTP

\* C19 as the code has it: the Bitbucket adapter reports every response status
\* other than 200 and 404 as an HTTPError carrying the status code, the request
\* URL and the response body, and never a 200; the GitHub, GitLab and Gitea
\* adapters fail on a non-success status other than 404 with the error of
\* their SDK, which is never an HTTPError, and return no repository.
C19_HTTPErrorIsBitbuckets ==
    RepoFetched
        => /\ (tout.adapter = Bitbucket /\ RepoStatus \in {"204", "403", "500"})
                => (IsHTTPError /\ tout.repo = NilRepo)
           /\ (tout.adapter = Bitbucket /\ RepoStatus \in {"200", "200-undecodable"})
                => tout.err # ErrHTTP
           /\ (tout.adapter # Bitbucket /\ OtherFailureStatus)
                => (tout.err = ErrAPI /\ tout.info = NoInfo /\ tout.repo = NilRepo)
           /\ tout.adapter # Bitbucket => tout.err # ErrHTTP

\* The Bitbucket adapter got a 500 and returned the HTTPError with its fields.
C19_Witness ==
    /\ RepoFetched
    /\ tout.adapter = Bitbucket
    /\ RepoStatus = "500"
    /\ tout.err = ErrHTTP
    /\ tout.info.StatusCode = "500"
    /\ tout.info.Body = "body"
    /\ tout.repo = NilRepo

\* C20: every request of an adapter call is bound to the caller's context:
\* once the context is cancelled the call issues no further request. With the
\* context cancelled after n requests, no call makes more than n requests.
C20_NoRequestAfterCancel ==
    (AdapterCalled /\ tsrv.ctx # NeverCancelled) => Len(tout.reqs) <= tsrv.ctx


(***************************************************************************)
(* Claims about the normalization of repositories.                         *)
(***************************************************************************)

\* the adapter converted the provider's payload into a Repository
RepoConverted == RepoFetched /\ tout.err = ErrNil /\ tout.repo # NilRepo

PayloadLicense == tsrv.repo.payload.license

\* C21: for every adapter, the License of a returned Repository is never the
\* provider's no-assertion sentinel: a payload whose license key is
\* NOASSERTION gives an empty License, and one whose key is MIT gives MIT.
C21_LicenseNormalized ==
    RepoConverted
        => /\ tout.repo.License # NoAssertion
           /\ PayloadLicense = License(NoAssertion) => tout.repo.License = ""
           /\ PayloadLicense = License("MIT") => tout.repo.License = "MIT"

PayloadParent == tsrv.repo.payload.parent

\* C22: for every adapter and every payload, the returned Repository has
\* Fork = TRUE and the parent's full name as SourceName exactly when the
\* payload carries a parent, and Fork = FALSE with an empty SourceName when it
\* carries none, whatever the payload's own fork flag says.
C22_ForkIffParent ==
    RepoConverted
        => /\ tout.repo.Fork = PayloadParent.present
           /\ tout.repo.SourceName = (IF PayloadParent.present THEN PayloadParent.full_name ELSE "")
           /\ tout.repo.SourceName # "" => tout.repo.Fork

\* C23: every Repository an adapter returns has FullName = Owner + "/" + Name.
C23_FullNameIsOwnerSlashName ==
    RepoConverted => tout.repo.FullName = tout.repo.Owner \o "/" \o tout.repo.Name

(***************************************************************************)
(* Claims about the registry of a Client.                                  *)
(***************************************************************************)

Registered == IF client = Idle THEN {} ELSE DOMAIN client.forges

\* C24: the requests of every registered adapter, those of RegisterDomain and
\* of the default registrations included, carry the authorization exactly
\* when the adapter's token is not empty.
C24_AuthIffToken ==
    \A d \in Registered : client.forges[d].auth <=> client.forges[d].token # ""

(***************************************************************************)
(* Listing claims, continued.                                              *)
(***************************************************************************)

\* all the repositories of the owner on the endpoint the listing came from
OwnedRepos == IF OrgEnd = "200" THEN lsrv.org.items ELSE lsrv.user.items

\* C25: for every page-size hint and every way the provider splits the owner's
\* repositories into pages, a provider that returns fewer items per page than
\* were asked for included, the Gitea adapter's ListRepositories returns the
\* filter applied to all of the owner's repositories.
C25_GiteaListsToExhaustion ==
    (Listed /\ lout.adapter = Gitea /\ lout.err = ErrNil)
        => lout.repos = FilterRepos(Converted(OwnedRepos), lopts)

(***************************************************************************)
(* Detector claims, continued.                                             *)
(***************************************************************************)

InProbes(path) == \E i \in 1..Len(det.probes) : det.probes[i] = path

\* C26: the /api/v1/version probe classifies as Gitea or Forgejo only when the
\* response is a 200 whose body decodes and contains a version field; a 200
\* whose body decodes without a version field does not classify, and probing
\* continues with /api/v4/version.
C26_VersionFieldRequired ==
    APIProbingDone =>
        /\ (det.err = ErrNil /\ det.ft \in {Gitea, Forgejo})
               => Is200(world.v1) /\ world.v1.body.decodes /\ world.v1.body.hasVersion
        /\ (Is200(world.v1) /\ world.v1.body.decodes /\ ~world.v1.body.hasVersion)
               => InProbes("/api/v4/version")

(***************************************************************************)
(* Claims about concurrent callers.                                        *)
(***************************************************************************)

\* C27: when RegisterDomain runs concurrently with FetchRepository, FetchTags
\* or another RegisterDomain on the same Client and the callers supply no
\* synchronization, no write to the adapter map or the token map overlaps
\* another read or write of that map.
C27_RegistryInternallySynchronized == ~conc.serial => ~Overlap

\* C27 amended: the registry is not synchronized by the Client. The only
\* writes to its maps are those of RegisterDomain (FetchRepository and
\* FetchTags only read the adapter map), and when the callers serialize their
\* calls no access to a map overlaps a write to it and the program is never
\* stopped for a data race.
C27_SynchronizedByTheCallerOnly ==
    /\ conc.serial => ~Overlap /\ ~conc.fatal
    /\ \A g \in Goroutines :
           (Accessing(g) /\ MapAccess(conc.pc[g]).write) => conc.op[g] = "RegisterDomain"

\* Under the callers' lock a RegisterDomain writes the adapter map after the
\* other goroutine completed a fetch that found no adapter.
C27_Witness ==
    /\ conc.serial
    /\ conc.op[1] = "RegisterDomain" /\ conc.pc[1] = "writeForges"
    /\ conc.op[2] = "FetchTags" /\ conc.pc[2] = "idle" /\ conc.calls[2] = 1
    /\ ~conc.forges

(***************************************************************************)
(* Client claims, continued.                                               *)
(***************************************************************************)

\* the step is a RegisterDomain call that returned
RegisterReturned == cout'.op = "RegisterDomain" /\ regCalls' # regCalls

\* the adapter kind and base URL RegisterDomain binds a detected type to
BoundAs(f, ft, domain) ==
    CASE ft = GitHub -> f.kind = GitHub /\ f.base = StrHttps \o domain
      [] ft = GitLab -> f.kind = GitLab /\ f.base = StrHttps \o domain \o StrApiV4
      [] ft \in {Gitea, Forgejo} -> f.kind = Gitea /\ f.base = StrHttps \o domain
      [] OTHER -> FALSE

C28_Step ==
    /\ RegisterReturned =>
        /\ cout'.err # ErrNil =>
               client'.forges = client.forges /\ client'.tokens = client.tokens
        /\ cout'.err = ErrNil =>
               /\ cout'.arg.domain \in DOMAIN client'.forges
               /\ BoundAs(client'.forges[cout'.arg.domain], DetectForgeType(cout'.ans).ft,
                          cout'.arg.domain)
               /\ forgeFor(client', cout'.arg.domain).err = ErrNil
    /\ DOMAIN client.forges \subseteq DOMAIN client'.forges
    /\ (/\ cout'.op \in {"FetchRepository", "FetchTags"}
        /\ regCalls' = regCalls
        /\ ParseRepoURL(cout'.arg).err = ErrNil
        /\ ParseRepoURL(cout'.arg).domain \in DOMAIN client.forges)
           => cout'.err # ErrNoForge

\* C28: whenever RegisterDomain returns an error, the adapter map and the
\* token map of the Client are as they were before the call; whenever it
\* returns nil, the domain is bound to the adapter kind of the detected type
\* (GitHub: the GitHub adapter with the enterprise base URL, GitLab: the GitLab
\* adapter, Gitea and Forgejo: the Gitea adapter), the binding stays, and later
\* fetches for the domain do not fail with the routing error.
C28_RegisterDomainFrame == [][C28_Step]_vars

\* A second RegisterDomain for ex.io, with another token, failed in detection:
\* the adapter and the token of the first registration are still there.
C28_Witness ==
    /\ cout.op = "RegisterDomain"
    /\ cout.arg.domain = StrExIo
    /\ cout.err = ErrDetecting
    /\ regCalls[StrExIo] = 2
    /\ StrExIo \in DOMAIN client.forges
    /\ client.forges[StrExIo].kind = GitHub
    /\ client.tokens[StrExIo] # cout.arg.token
    /\ client = cout.before

\* positions of the WithHTTPClient options
HTTPClientOptions(opts) == {i \in 1..Len(opts) : opts[i].type = "WithHTTPClient"}

\* the HTTP client an adapter holds when it was constructed with hc: the
\* Bitbucket adapter replaces nil by http.DefaultClient
HeldBy(f, hc) == IF f.kind = Bitbucket /\ hc = NilHC THEN "http.DefaultClient" ELSE hc

Constructed == client # Idle

LaterWithToken(opts, d) ==
    /\ ExplicitAt(opts, d) # {}
    /\ \E i \in 1..Len(opts) :
           /\ i > Last(ExplicitAt(opts, d))
           /\ opts[i].type = "WithToken"
           /\ opts[i].domain = d

====
